---- MODULE Spec2Model ----
(***************************************************************************)
(* Model of the serial-extraction pipeline of apple-ocr-backend:           *)
(*   app/pipeline/ocr_adapter_improved.py  (resolver, progressive stages)  *)
(*   app/pipeline/tesseract_adapter.py     (classical OCR fallback)        *)
(*   app/utils/validation.py               (serial format validator)       *)
(* Strings are sequences of one-character strings; confidences are         *)
(* integers in hundredths (0.95 is 95, the +0.05 boost is 5, the cap 1.0   *)
(* is 100); elapsed time is counted in ticks.                              *)
(***************************************************************************)
EXTENDS Integers, Sequences, FiniteSets, TLC

\* ------------------------------------------------------------------------
\* Characters and strings
\* ------------------------------------------------------------------------
UpperLetters ==
  <<"A","B","C","D","E","F","G","H","I","J","K","L","M",
    "N","O","P","Q","R","S","T","U","V","W","X","Y","Z">>

LowerLetters ==
  <<"a","b","c","d","e","f","g","h","i","j","k","l","m",
    "n","o","p","q","r","s","t","u","v","w","x","y","z">>

DigitChars == {"0","1","2","3","4","5","6","7","8","9"}

\* _ALLOWED = "ABCDEFGHIJKLMNOPQRSTUVWXYZ0123456789"
_ALLOWED == {UpperLetters[i] : i \in 1..26} \cup DigitChars

\* the upper-case letter of each lower-case letter
ToUpper ==
  [ch \in {LowerLetters[i] : i \in 1..26} |->
     UpperLetters[CHOOSE i \in 1..26 : LowerLetters[i] = ch]]

\* str.upper() on one character
UpperChar(ch) == IF ch \in DOMAIN ToUpper THEN ToUpper[ch] ELSE ch

\* str.upper()
StrUpper(s) == [i \in 1..Len(s) |-> UpperChar(s[i])]

\* str.strip(): drop leading and trailing blanks
RECURSIVE StripLeft(_)
StripLeft(s) ==
  IF s # <<>> /\ Head(s) = " " THEN StripLeft(Tail(s)) ELSE s

RECURSIVE StripRight(_)
StripRight(s) ==
  IF s # <<>> /\ s[Len(s)] = " " THEN StripRight(SubSeq(s, 1, Len(s) - 1)) ELSE s

StrStrip(s) == StripRight(StripLeft(s))

\* str.replace(" ", "")
RemoveSpaces(s) == SelectSeq(s, LAMBDA c : c # " ")

\* s[:idx] + rep + s[idx+1:]   (idx is the 0-based Python index)
ReplaceAt(s, idx, rep) == [i \in 1..Len(s) |-> IF i = idx + 1 THEN rep ELSE s[i]]

Max2(a, b) == IF a >= b THEN a ELSE b
Min2(a, b) == IF a <= b THEN a ELSE b

\* ------------------------------------------------------------------------
\* app/utils/validation.py
\* ------------------------------------------------------------------------
\* _BASIC_PATTERN = ^[A-Z0-9]{12}$
_BASIC_PATTERN(s) == Len(s) = 12 /\ \A i \in 1..12 : s[i] \in _ALLOWED

\* is_valid_apple_serial(text, strict=False)
is_valid_apple_serial(text) ==
  /\ text # <<>>
  /\ _BASIC_PATTERN(StrUpper(StrStrip(text)))

\* str.isdigit() and str.isalpha() on a character of [A-Z0-9]
IsDigit(ch) == ch \in DigitChars

IsAlpha(ch) == \E i \in 1..26 : UpperLetters[i] = ch

\* the keys of _KNOWN_PREFIXES
_KNOWN_PREFIXES ==
  {<<"C">>, <<"F">>, <<"G">>, <<"M">>, <<"P">>, <<"V">>, <<"W">>, <<"X">>, <<"Y">>,
   <<"D","M">>, <<"D","N">>, <<"F","K">>, <<"G","8">>, <<"Q","P">>, <<"R","N">>,
   <<"R","M">>, <<"S","G">>, <<"V","M">>, <<"Y","M">>,
   <<"C","0","7">>, <<"C","1","7">>, <<"C","1","M">>, <<"C","2","V">>,
   <<"F","4","N">>, <<"F","5","K">>, <<"F","C","7">>, <<"G","8","V">>,
   <<"Q","T","4">>}

\* _COMMON_CHARS_BY_POSITION[0]
_COMMON_CHARS_BY_POSITION_0 == {"C", "F", "G", "D", "M", "P", "V", "W", "X", "Y"}

_DISALLOWED_CHARS == {"O", "I", "Z", "S", "B", "Q", "G", "D", "T"}

\* lines 170-185: prefix[0], prefix[:2] or prefix is a key of _KNOWN_PREFIXES
HasKnownPrefix(candidate) ==
  \E k \in 1..3 : SubSeq(candidate, 1, k) \in _KNOWN_PREFIXES

\* len(position_errors), lines 181-190, for a candidate of [A-Z0-9]{12}: the
\* first character is not a common one, position 1 is not a letter, position
\* 2 is not a digit (the other patterns are [A-Z0-9])
PositionErrors(candidate) ==
  (IF candidate[1] \notin _COMMON_CHARS_BY_POSITION_0 THEN 1 ELSE 0)
  + (IF ~IsAlpha(candidate[1]) THEN 1 ELSE 0)
  + (IF ~IsDigit(candidate[2]) THEN 1 ELSE 0)

\* sum(1 for c in candidate if c in _DISALLOWED_CHARS)
DisallowedCount(candidate) ==
  Cardinality({i \in 1..Len(candidate) : candidate[i] \in _DISALLOWED_CHARS})

\* any(c.isdigit() for c in serial[-4:])
LastFourHaveDigit(candidate) ==
  \E i \in (Len(candidate) - 3)..Len(candidate) : IsDigit(candidate[i])

\* validate_apple_serial_extended(text): <<is_valid, reason>>
validate_apple_serial_extended(text) ==
  IF text = <<>> THEN <<FALSE, "Empty serial number">>
  ELSE
    LET candidate == StrUpper(StrStrip(text))
    IN IF ~_BASIC_PATTERN(candidate)
         THEN <<FALSE, "Must be exactly 12 alphanumeric characters">>
       ELSE IF ~HasKnownPrefix(candidate) /\ PositionErrors(candidate) > 2
         THEN <<FALSE, "Failed position-specific checks">>
       ELSE IF DisallowedCount(candidate) > 3
         THEN <<FALSE, "Too many potentially confused characters">>
       ELSE IF ~LastFourHaveDigit(candidate)
         THEN <<FALSE, "Last 4 characters should contain at least one digit">>
       ELSE <<TRUE, "None">>

\* ------------------------------------------------------------------------
\* app/utils/client_validation.py: AppleSerialValidator
\* ------------------------------------------------------------------------
\* POSITION_CORRECTIONS[pos].get(ch), "" if none (pos is the Python index)
POSITION_CORRECTIONS(pos, ch) ==
  CASE ch = "0" -> "O"
    [] ch = "1" -> "I"
    [] ch = "5" /\ pos >= 1 -> "S"
    [] ch = "8" /\ pos >= 2 -> "B"
    [] OTHER -> ""

\* _apply_position_corrections(serial)[0]
_apply_position_corrections(serial) ==
  [i \in 1..Len(serial) |->
     IF POSITION_CORRECTIONS(i - 1, serial[i]) # ""
       THEN POSITION_CORRECTIONS(i - 1, serial[i]) ELSE serial[i]]

\* len(corrections)
CorrectionsMade(serial) ==
  Cardinality({i \in 1..Len(serial) : POSITION_CORRECTIONS(i - 1, serial[i]) # ""})

\* AppleSerialValidator.KNOWN_PREFIXES
KNOWN_PREFIXES ==
  {<<"C","0",c>> : c \in {"2","3","4","5","6","7","8","9","A","B","C","D","E","F"}}
  \cup {<<"C","O",c>> : c \in {"2","3","4","5","6","7","8","9","A","B","C","D","E","F"}}
  \cup {<<"C",c>> : c \in {"1","2","3","4","5","6","7","8","9","A","B","C","D","E","F"}}
  \cup {<<c>> : c \in {"D","E","F","G","H","J","K","L","M","N","P","Q","R","S","T",
                       "U","V","W","X","Y","Z"}}

\* has_known_prefix, lines 216-220
has_known_prefix(serial) ==
  \E k \in 1..3 : SubSeq(serial, 1, k) \in KNOWN_PREFIXES

\* len(position_errors), lines 229-232: only POSITION_PATTERNS[0] = [A-Z]
\* can fail on a serial of [A-Z0-9]{12}
position_errors(serial) == IF IsAlpha(serial[1]) THEN 0 ELSE 1

\* the notes that hold 'Warning:', lines 240-250
Warnings(serial) ==
  (IF \E i \in 9..12 : IsDigit(serial[i]) THEN 0 ELSE 1)
  + (IF (\E i \in 4..8 : IsAlpha(serial[i])) /\ (\E i \in 4..8 : IsDigit(serial[i]))
       THEN 0 ELSE 1)

\* requires_user_confirmation
RequiresConfirmation(serial) ==
  \/ ~has_known_prefix(serial)
  \/ position_errors(serial) > 0
  \/ Warnings(serial) > 0

\* _shape_confidence, in hundredths
_shape_confidence(serial, confidence, corrections) ==
  Max2(0, Min2(100, confidence - 5 * corrections - 3 * Warnings(serial)
                      + (IF has_known_prefix(serial) THEN 10 ELSE 0)))

\* variant of ConfidenceLevel: the prefix is not asked for
ConfidenceLevel_any_prefix(adjusted, confirm, known) ==
  IF adjusted >= 85 /\ ~confirm THEN "accept"
  ELSE IF adjusted >= 65 THEN "borderline"
  ELSE "reject"

\* confidence_level, lines 256-261
ConfidenceLevel(adjusted, confirm, known) ==
  IF adjusted >= 85 /\ ~confirm /\ known THEN "accept"
  ELSE IF adjusted >= 65 /\ known THEN "borderline"
  ELSE "reject"

\* _validate_corrected_serial(serial, confidence, corrections), with the
\* number of corrections for the list
_validate_corrected_serial(serial, confidence, corrections) ==
  LET level == ConfidenceLevel(_shape_confidence(serial, confidence, corrections),
                               RequiresConfirmation(serial), has_known_prefix(serial))
  IN [is_valid |-> level # "reject" /\ position_errors(serial) <= 1
                     /\ has_known_prefix(serial),
      confidence_level |-> level,
      corrected_serial |-> IF corrections > 0 THEN serial ELSE <<>>,
      corrections_made |-> corrections,
      requires_user_confirmation |-> RequiresConfirmation(serial)]

\* validate_with_corrections(serial, confidence)
validate_with_corrections(serial, confidence) ==
  LET candidate == StrUpper(StrStrip(serial))
      rejected == [is_valid |-> FALSE, confidence_level |-> "reject",
                   corrected_serial |-> <<>>, corrections_made |-> 0,
                   requires_user_confirmation |-> FALSE]
  IN IF serial = <<>> \/ ~_BASIC_PATTERN(candidate) THEN rejected
     ELSE _validate_corrected_serial(_apply_position_corrections(candidate),
                                     confidence, CorrectionsMade(candidate))

\* variant of should_submit_to_backend: a confirmed serial is submitted
\* whatever its level
should_submit_to_backend_confirmed(result, user_confirmed) ==
  result.confidence_level = "accept" \/ user_confirmed

\* should_submit_to_backend(validation_result, user_confirmed)
should_submit_to_backend(result, user_confirmed) ==
  CASE result.confidence_level = "reject" -> FALSE
    [] result.confidence_level = "accept" -> TRUE
    [] result.confidence_level = "borderline" -> user_confirmed
    [] OTHER -> FALSE

\* ------------------------------------------------------------------------
\* Character disambiguation (ocr_adapter_improved.py)
\* ------------------------------------------------------------------------
\* _AMBIGUOUS_MAP.get(ch): the digit a look-alike letter folds to, "" if none
_AMBIGUOUS_MAP(ch) ==
  CASE ch = "O" -> "0"
    [] ch = "I" -> "1"
    [] ch = "L" -> "1"
    [] ch = "Z" -> "2"
    [] ch = "S" -> "5"
    [] ch = "B" -> "8"
    [] ch = "Q" -> "0"
    [] ch = "G" -> "6"
    [] ch = "D" -> "0"
    [] ch = "T" -> "7"
    [] OTHER -> ""

\* variant of _POSITION_RULES: the table is empty
_POSITION_RULES_empty(ch, idx) == ""

\* _POSITION_RULES[ch][idx] for the 0-based position idx, "" if there is no
\* rule.  The dict literal names "O","I","L","Z","S","B" twice; the later
\* entry (positions 3-4) replaces the earlier one (positions 8-11), as a
\* Python dict literal keeps the last value of a repeated key.
_POSITION_RULES(ch, idx) ==
  CASE ch = "0" /\ idx \in {0, 1, 2} -> "O"
    [] ch = "1" /\ idx \in {0, 1, 2} -> "I"
    [] ch = "2" /\ idx \in {0, 1, 2} -> "Z"
    [] ch = "5" /\ idx \in {0, 1, 2} -> "S"
    [] ch = "8" /\ idx \in {0, 1, 2} -> "B"
    [] ch = "Q" /\ idx \in {8, 9, 10, 11} -> "0"
    [] ch = "G" /\ idx \in {8, 9, 10, 11} -> "6"
    [] ch = "D" /\ idx \in {8, 9, 10, 11} -> "0"
    [] ch = "T" /\ idx \in {8, 9, 10, 11} -> "7"
    [] ch = "O" /\ idx \in {3, 4} -> "0"
    [] ch = "I" /\ idx \in {3, 4} -> "1"
    [] ch = "L" /\ idx \in {3, 4} -> "1"
    [] ch = "Z" /\ idx \in {3, 4} -> "2"
    [] ch = "S" /\ idx \in {3, 4} -> "5"
    [] ch = "B" /\ idx \in {3, 4} -> "8"
    [] ch = "E" /\ idx \in {5, 6, 7} -> "F"
    [] ch = "J" /\ idx \in {5, 6, 7} -> "I"
    [] ch = "C" /\ idx = 0 -> "C"
    [] ch = "Y" /\ idx = 3 -> "Y"
    [] OTHER -> ""

\* first loop of _expand_ambiguous: general expansion, position idx onwards
RECURSIVE ExpandGeneral(_, _, _, _)
ExpandGeneral(text, idx, variants, position_aware) ==
  IF idx >= Len(text) THEN variants
  ELSE
    LET ch == text[idx + 1]
        skip == position_aware /\ Len(text) = 12 /\ _POSITION_RULES(ch, idx) # ""
        rep == _AMBIGUOUS_MAP(ch)
        next == IF skip \/ rep = "" THEN variants
                ELSE variants \cup {ReplaceAt(v, idx, rep) : v \in variants}
    IN ExpandGeneral(text, idx + 1, next, position_aware)

\* second loop of _expand_ambiguous: the position-rule image of a variant
PositionVariant(v) ==
  [i \in 1..Len(v) |->
     IF _POSITION_RULES(v[i], i - 1) # "" THEN _POSITION_RULES(v[i], i - 1) ELSE v[i]]

\* _expand_ambiguous(text, position_aware)
_expand_ambiguous(text, position_aware) ==
  LET variants == ExpandGeneral(text, 0, {text}, position_aware)
  IN IF position_aware /\ Len(text) = 12
       THEN variants \cup {PositionVariant(v) : v \in variants}
       ELSE variants

\* _normalize_ambiguous(text, position_aware)
_normalize_ambiguous(text, position_aware) ==
  LET up == StrUpper(StrStrip(text))
  IN [i \in 1..Len(up) |->
        IF position_aware /\ Len(up) = 12 /\ _POSITION_RULES(up[i], i - 1) # ""
          THEN _POSITION_RULES(up[i], i - 1)
          ELSE IF _AMBIGUOUS_MAP(up[i]) # "" THEN _AMBIGUOUS_MAP(up[i]) ELSE up[i]]

\* ------------------------------------------------------------------------
\* Lists of (serial, confidence) pairs
\* ------------------------------------------------------------------------
\* all orders in which a Python set can be iterated
Perms(S) ==
  {f \in [1..Cardinality(S) -> S] : \A i, j \in 1..Cardinality(S) : f[i] = f[j] => i = j}

\* variant of InsertDesc: x goes before the elements with an equal key, as
\* in a sort that is not stable
RECURSIVE InsertDesc_unstable(_, _)
InsertDesc_unstable(sorted, x) ==
  IF sorted = <<>> THEN <<x>>
  ELSE IF Head(sorted)[2] > x[2]
    THEN <<Head(sorted)>> \o InsertDesc_unstable(Tail(sorted), x)
  ELSE <<x>> \o sorted

\* place x behind every element whose key is >= the key of x
RECURSIVE InsertDesc(_, _)
InsertDesc(sorted, x) ==
  IF sorted = <<>> THEN <<x>>
  ELSE IF Head(sorted)[2] >= x[2] THEN <<Head(sorted)>> \o InsertDesc(Tail(sorted), x)
  ELSE <<x>> \o sorted

\* sorted(seq, key=lambda x: x[1], reverse=True): stable, descending
RECURSIVE SortedDesc(_)
SortedDesc(seq) ==
  IF seq = <<>> THEN <<>>
  ELSE InsertDesc(SortedDesc(SubSeq(seq, 1, Len(seq) - 1)), seq[Len(seq)])

RECURSIVE SumSeq(_)
SumSeq(seq) == IF seq = <<>> THEN 0 ELSE Head(seq) + SumSeq(Tail(seq))

\* max(results, key=lambda x: x[1]): the first element with the largest key
MaxByConf(results) ==
  LET i == CHOOSE i \in 1..Len(results) :
             /\ \A j \in 1..Len(results) : results[j][2] <= results[i][2]
             /\ \A j \in 1..(i - 1) : results[j][2] < results[i][2]
  IN results[i]

\* keys of a dict in insertion order: the distinct values of Key over seq,
\* in order of first appearance
RECURSIVE FirstSeen(_, _)
FirstSeen(keys, acc) ==
  IF keys = <<>> THEN acc
  ELSE IF \E i \in 1..Len(acc) : acc[i] = Head(keys)
         THEN FirstSeen(Tail(keys), acc)
         ELSE FirstSeen(Tail(keys), Append(acc, Head(keys)))

\* ------------------------------------------------------------------------
\* _read_serials_from_image: post-processing of the engine's results
\* ------------------------------------------------------------------------
\* variant of VariantHits: the format check is left out
VariantHits_unvalidated(text, confidence, min_confidence) ==
  LET base == RemoveSpaces(StrUpper(StrStrip(text)))
      candidates == _expand_ambiguous(base, TRUE)
  IN {<<c, confidence>> : c \in {v \in candidates : confidence >= min_confidence}}

\* the (candidate, confidence) pairs one engine result contributes, as a set
VariantHits(text, confidence, min_confidence) ==
  LET base == RemoveSpaces(StrUpper(StrStrip(text)))
      candidates == _expand_ambiguous(base, TRUE)
  IN {<<c, confidence>> : c \in {v \in candidates :
                                   is_valid_apple_serial(v) /\ confidence >= min_confidence}}

\* the lists `serials` can be for the engine results `results`
\* (a sequence of <<text, confidence>>): `for c in candidates` walks a set
RECURSIVE _read_serials_from_image(_, _)
_read_serials_from_image(results, min_confidence) ==
  IF results = <<>> THEN {<<>>}
  ELSE {h \o t : h \in Perms(VariantHits(Head(results)[1], Head(results)[2], min_confidence)),
                 t \in _read_serials_from_image(Tail(results), min_confidence)}

\* ------------------------------------------------------------------------
\* extract_serials: aggregation by normalized key (lines 1344-1357)
\* ------------------------------------------------------------------------
\* texts the engines report: two 12-character serials, a text that is one
\* character short, and a serial in lower case between spaces
TextA == <<"C","0","2","Y","9","5","A","8","J","G","5","H">>
TextB == <<"F","4","N","O","K","3","P","9","W","W","7","M">>
TextShort == <<"C","0","2","Y","9","5","A","8","J","G","5">>
TextLower == <<" ","c","0","2","y","9","5","a","8","j","g","5","h"," ">>

\* the texts a hit can carry: the candidates of the texts the engines report
CandidateTexts ==
  UNION {_expand_ambiguous(RemoveSpaces(StrUpper(StrStrip(t))), TRUE) :
           t \in {TextA, TextB, TextShort, TextLower}}

\* _normalize_ambiguous(serial, position_aware=True) of every such text
NormTable == [t \in CandidateTexts |-> _normalize_ambiguous(t, TRUE)]

\* norm = _normalize_ambiguous(serial, position_aware=True), looked up in the
\* table where the table has the text
NormOf(hit) ==
  IF hit[1] \in DOMAIN NormTable THEN NormTable[hit[1]]
  ELSE _normalize_ambiguous(hit[1], TRUE)

\* variant of score_by_norm: the confidence of the latest hit of the key
score_by_norm_latest(serials, norm) ==
  LET hits == SelectSeq(serials, LAMBDA h : NormOf(h) = norm)
  IN IF hits = <<>> THEN 0 ELSE hits[Len(hits)][2]

\* score_by_norm[norm]
score_by_norm(serials, norm) ==
  SumSeq([i \in 1..Len(serials) |->
            IF NormOf(serials[i]) = norm THEN serials[i][2] ELSE 0])

\* variant of best_variant_by_norm: the first hit of the key is kept
best_variant_by_norm_first(serials, norm) ==
  Head(SelectSeq(serials, LAMBDA h : NormOf(h) = norm))

\* best_variant_by_norm[norm]: replaced only by a strictly larger confidence
best_variant_by_norm(serials, norm) ==
  MaxByConf(SelectSeq(serials, LAMBDA h : NormOf(h) = norm))

\* variant of ordered_norms: the keys are sorted by the confidence of their
\* best single hit
ordered_norms_by_best(serials) ==
  LET keys == FirstSeen([i \in 1..Len(serials) |-> NormOf(serials[i])], <<>>)
  IN SortedDesc([i \in 1..Len(keys) |->
                   <<keys[i], best_variant_by_norm(serials, keys[i])[2]>>])

\* ordered_norms = sorted(score_by_norm.items(), key=kv[1], reverse=True)
ordered_norms(serials) ==
  LET keys == FirstSeen([i \in 1..Len(serials) |-> NormOf(serials[i])], <<>>)
  IN SortedDesc([i \in 1..Len(keys) |-> <<keys[i], score_by_norm(serials, keys[i])>>])

\* merged
Aggregate(serials) ==
  LET ord == ordered_norms(serials)
  IN [i \in 1..Len(ord) |-> best_variant_by_norm(serials, ord[i][1])]

\* ------------------------------------------------------------------------
\* _merge_and_deduplicate_results
\* ------------------------------------------------------------------------
Boost == 5

Cap == 100

\* serial_to_confidence[serial] after the grouping loop, before the cap
RECURSIVE serial_to_confidence(_, _)
serial_to_confidence(results, serial) ==
  IF results = <<>> THEN -1
  ELSE LET prev == serial_to_confidence(SubSeq(results, 1, Len(results) - 1), serial)
           last == results[Len(results)]
       IN IF last[1] # serial THEN prev
          ELSE IF prev = -1 THEN last[2]
          ELSE Max2(prev, last[2]) + Boost

\* variant of _merge_and_deduplicate_results: the pool is grouped by the
\* serial with its ambiguous characters collapsed, and a group keeps its
\* first entry
_merge_by_normalized_key(results) ==
  LET norm(i) == _normalize_ambiguous(results[i][1], FALSE)
      keys == FirstSeen([i \in 1..Len(results) |-> norm(i)], <<>>)
      first(key) == CHOOSE i \in 1..Len(results) :
                      norm(i) = key /\ \A j \in 1..(i - 1) : norm(j) # key
  IN SortedDesc([n \in 1..Len(keys) |-> results[first(keys[n])]])

_merge_and_deduplicate_results(results) ==
  IF results = <<>> THEN <<>>
  ELSE LET keys == FirstSeen([i \in 1..Len(results) |-> results[i][1]], <<>>)
       IN SortedDesc([i \in 1..Len(keys) |->
                        <<keys[i], Min2(serial_to_confidence(results, keys[i]), Cap)>>])

\* ------------------------------------------------------------------------
\* extract_serials: the scan loop (lines 1306-1342) followed by aggregation
\* ------------------------------------------------------------------------
\* `calls` is the sequence of engine results, one per recognizer call in scan
\* order (region, angle, normal then inverted); the value is the set of pairs
\* <<list returned, all_serials at the return>> the pass can end with.
RECURSIVE ScanFrom(_, _, _, _, _)
ScanFrom(calls, serials, min_confidence, early_stop_confidence, enable_early_stop) ==
  IF calls = <<>> THEN {<<Aggregate(serials), serials>>}
  ELSE UNION {
         IF enable_early_stop /\ results # <<>>
              /\ MaxByConf(results)[2] >= early_stop_confidence
           THEN {<<<<MaxByConf(results)>>, serials \o results>>}
           ELSE ScanFrom(Tail(calls), serials \o results, min_confidence,
                         early_stop_confidence, enable_early_stop)
         : results \in _read_serials_from_image(Head(calls), min_confidence)}

extract_serials(calls, min_confidence, early_stop_confidence, enable_early_stop) ==
  ScanFrom(calls, <<>>, min_confidence, early_stop_confidence, enable_early_stop)

\* ------------------------------------------------------------------------
\* app/pipeline/tesseract_adapter.py
\* ------------------------------------------------------------------------
\* _ALLOWED_CHARS = "ABCDEFGHIJKLMNOPQRSTUVWXYZ0123456789"
_ALLOWED_CHARS == {UpperLetters[i] : i \in 1..26} \cup DigitChars

\* _filter_tesseract_result
_filter_tesseract_result(text) ==
  SelectSeq(RemoveSpaces(StrUpper(StrStrip(text))), LAMBDA c : c \in _ALLOWED_CHARS)

\* the digits of _CORRECTION_MAP whose confused-character list holds ch
CorrectionDigits(ch) ==
  CASE ch \in {"O", "D", "Q"} -> {"0"}
    [] ch \in {"I", "L", "|"} -> {"1"}
    [] ch = "Z" -> {"2"}
    [] ch = "S" -> {"5"}
    [] ch = "G" -> {"6"}
    [] ch = "T" -> {"7"}
    [] ch = "B" -> {"8"}
    [] OTHER -> {}

\* _generate_candidate_serials, as the set behind list(set(...))
_generate_candidate_serials(text) ==
  LET windows == IF Len(text) > 12
                   THEN {SubSeq(text, i, i + 11) : i \in 1..(Len(text) - 11)}
                   ELSE {}
      candidates == {c \in {text} \cup windows : Len(c) = 12}
  IN candidates \cup
       UNION {{ReplaceAt(c, i - 1, d) : d \in CorrectionDigits(c[i])} :
                c \in candidates, i \in 1..12}

\* all_candidates for the word list `data` (a sequence of <<text, conf>>)
RECURSIVE TesseractCandidates(_, _)
TesseractCandidates(data, min_confidence) ==
  IF data = <<>> THEN {<<>>}
  ELSE LET text == Head(data)[1]
           conf == Head(data)[2]
           found == IF StrStrip(text) # <<>> /\ conf >= min_confidence
                      THEN {<<c, conf>> :
                              c \in {v \in _generate_candidate_serials(
                                             _filter_tesseract_result(text)) :
                                       is_valid_apple_serial(v)}}
                      ELSE {}
       IN {h \o t : h \in Perms(found), t \in TesseractCandidates(Tail(data), min_confidence)}

\* unique_results[serial]: the largest confidence seen for the serial
unique_results(all_candidates, serial) ==
  MaxByConf(SelectSeq(all_candidates, LAMBDA h : h[1] = serial))[2]

\* extract_serials_with_tesseract: the set of pairs
\* <<list returned, all_candidates>> it can end with
extract_serials_with_tesseract(data, min_confidence) ==
  {LET keys == FirstSeen([i \in 1..Len(cands) |-> cands[i][1]], <<>>)
   IN <<SortedDesc([i \in 1..Len(keys) |-> <<keys[i], unique_results(cands, keys[i])>>]),
        cands>>
   : cands \in TesseractCandidates(data, min_confidence)}

\* ------------------------------------------------------------------------
\* Inputs of the model
\* ------------------------------------------------------------------------

\* one engine result <<text, confidence>>
Outputs ==
  {<<TextA, 50>>, <<TextA, 96>>, <<TextB, 30>>, <<TextB, 80>>, <<TextShort, 96>>}

\* most engine results (over all its recognizer calls) in one request
MaxReads == 2

\* most ticks one pass takes; every pass takes at least one
MaxDur == 2

\* most crops the region detector returns
MaxCrops == 1

\* elapsed time saturates here; every budget in MaxTimes is either below it
\* or far above it, so no comparison with a budget changes
MaxElapsed == 6

MaxTimes == {0, 5, 1000}

EarlyStops == {95}

MinConfidences == {0}

Strategies == {"easyocr_only", "tesseract_only", "hybrid"}

\* the value sets of the boolean and string keyword arguments of
\* progressive_process and of the module flag TESSERACT_AVAILABLE
FlagValues(name) ==
  IF name = "fallback_strategy" THEN Strategies ELSE BOOLEAN

\* group a flat sequence of engine results into recognizer calls:
\* cut[i] says that result i is the first of a new call
RECURSIVE SplitCalls(_, _, _, _)
SplitCalls(outs, cut, i, calls) ==
  IF i > Len(outs) THEN calls
  ELSE IF cut[i] THEN SplitCalls(outs, cut, i + 1, Append(calls, <<outs[i]>>))
  ELSE SplitCalls(outs, cut, i + 1,
                  [calls EXCEPT ![Len(calls)] = Append(@, outs[i])])

\* the scans of one pass that report at most k engine results in all
PassChoices(k) ==
  UNION {{SplitCalls(outs, cut, 1, <<>>) :
            outs \in [1..n -> Outputs],
            cut \in {c \in [1..n -> BOOLEAN] : n > 0 => c[1]}} : n \in 0..k}

NumOutputs(calls) == SumSeq([i \in 1..Len(calls) |-> Len(calls[i])])

\* the scan returns at this call, so the pass makes no later call
StopsAt(call, min_confidence, early_stop_confidence) ==
  \E i \in 1..Len(call) :
    /\ call[i][2] >= early_stop_confidence
    /\ VariantHits(call[i][1], call[i][2], min_confidence) # {}

\* only the last call of a pass can be the one that stops it
Executed(calls, min_confidence, early_stop_confidence) ==
  \A i \in 1..(Len(calls) - 1) : ~StopsAt(calls[i], min_confidence, early_stop_confidence)

\* for each candidate of the list a pass returns, the sum of the confidences
\* of the hits of the pass that have its normalized key
Scores(list, hits) == [i \in 1..Len(list) |-> score_by_norm(hits, NormOf(list[i]))]

\* the hits of a pass as a bag: the normalized keys hit, each with the sum of
\* the confidences of its hits
HitSums(hits) ==
  [key \in {NormOf(hits[i]) : i \in 1..Len(hits)} |-> score_by_norm(hits, key)]

\* variant of preprocess_image: bytes that do not decode give a blank image
preprocess_image_blank(decodable) == "processed"

\* preprocess_image, lines 227-230: cv2.imdecode gives None for bytes that
\* are no image, and the function raises ValueError("Invalid image data")
preprocess_image(decodable) == IF decodable THEN "processed" ELSE "ValueError"

\* detect_serial_regions: the numbers of crops it can give; lines 511-516
\* return [] for bytes that are no image
detect_serial_regions(decodable) == IF decodable THEN 0..MaxCrops ELSE {0}

\* what one extract_serials pass can do when at most k engine results are
\* left: <<engine results consumed, list returned, hit sums, scores>>
PassOutcomesOf(k, min_confidence, early_stop_confidence) ==
  UNION {{<<NumOutputs(calls), r[1], HitSums(r[2]), Scores(r[1], r[2])>> :
            r \in extract_serials(calls, min_confidence, early_stop_confidence, TRUE)} :
           calls \in {c \in PassChoices(k) :
                        Executed(c, min_confidence, early_stop_confidence)}}

\* the same for one extract_serials_with_tesseract call
TesseractOutcomesOf(k, min_confidence) ==
  UNION {UNION {{<<n, r[1], HitSums(r[2])>> :
                   r \in extract_serials_with_tesseract(data, min_confidence)} :
                  data \in [1..n -> Outputs]} : n \in 0..k}

\* both, tabulated once for the argument values of the model
PassTable ==
  [k \in 0..MaxReads |->
     [m \in MinConfidences |->
        [e \in EarlyStops |-> PassOutcomesOf(k, m, e)]]]

TesseractTable ==
  [k \in 0..MaxReads |-> [m \in MinConfidences |-> TesseractOutcomesOf(k, m)]]

\* ------------------------------------------------------------------------
\* progressive_process
\* ------------------------------------------------------------------------
VARIABLES
  pc,                   \* position of the request in progressive_process
  args,                 \* its keyword arguments: the numeric ones from the
                        \* start, fallback_strategy from the step that first
                        \* reads it; a flag that is read at one place only is
                        \* an input of the step that reads it
  roi_crops,            \* number of crops still to process
  stage1_yolo_results,
  all_results,
  scale_idx,            \* index into scales of the next scale to try
  attempt,              \* index into fallback_attempts of the next attempt
  elapsed,              \* time.time() - start_time, in ticks
  reads,                \* engine results reported so far
  returned,             \* the list returned, once pc = "done"
  exit,                 \* the return statement taken
  maxPassLen,           \* largest number of candidates one pass returned
  support,              \* per normalized key, the sum of the confidences of
                        \* all hits of the request so far
  scanned,              \* <<list returned, accumulated score of each of its
                        \* candidates>> of the latest extract_serials pass
  scan_pc,              \* position of a stand-alone extract_serials call
  scan_args,            \* its arguments
  scan_reads,           \* engine results reported to it so far
  imgs_to_scan,         \* its list imgs_to_scan (inv_to_scan goes with it)
  scan_calls,           \* recognizer calls its scan loop has made so far
  all_serials,          \* its list all_serials
  merged,               \* the list it returned, once scan_pc = "done"
  scan_exit,            \* the return statement it took
  _reader,              \* the module global _reader of ocr_adapter_improved
  OCR_SETTINGS,         \* the dictionary OCR_SETTINGS of app.config
  constructed,          \* easyocr.Reader objects constructed so far
  thread,               \* per thread that scans: its position in
                        \* _read_serials_from_image and its locals
  norm_pc,              \* position of a stand-alone call of _normalize_ambiguous
  norm_in,              \* the two texts it is called with, one after the other
  norm_out,             \* their keys, without and with position_aware
  _sweep_running,       \* the module global _sweep_running of param_cache
  _sweep_thread,        \* the module global _sweep_thread: the number of the
                        \* thread created last, 0 for None
  sweep,                \* per sweep thread: its position in _run_param_sweep
  caller,               \* per request to /params/sweep: its position in
                        \* trigger_param_sweep and schedule_param_sweep, and
                        \* the response of its previous request
  val_in,               \* the serial, confidence and user_confirmed that the
                        \* validators are called with
  val_done,             \* the validator functions that have returned
  extended_out,         \* what validate_apple_serial_extended returned
  validation_result,    \* what validate_with_corrections returned
  submit_out,           \* what should_submit_to_backend returned
  merge_in,             \* the list _merge_and_deduplicate_results is called with
  merge_done,           \* whether it has returned
  merge_out,            \* the list it returned
  adapter_pc,           \* position of a call of extract_serials of ocr_adapter
  adapter_args,         \* its arguments and what the detectors find in the image
  adapter_imgs,         \* its list imgs_to_scan (inv_to_scan goes with it)
  adapter_read,         \* the regions it has passed to the recognizer so far
  job_store,            \* the dictionary job_store of the router: per job its status, progress, results and error
  job_task              \* per job: the position of its background task and the locals of the task

vars == <<pc, args, roi_crops, stage1_yolo_results, all_results, scale_idx,
          attempt, elapsed, reads, returned, exit, maxPassLen,
          support, scanned,
          scan_pc, scan_args, scan_reads, imgs_to_scan, scan_calls,
          all_serials, merged, scan_exit,
          _reader, OCR_SETTINGS, constructed, thread,
          norm_pc, norm_in, norm_out,
          _sweep_running, _sweep_thread, sweep, caller,
          val_in, val_done, extended_out, validation_result, submit_out,
          merge_in, merge_done, merge_out,
          adapter_pc, adapter_args, adapter_imgs, adapter_read,
          job_store, job_task>>

requestVars ==
  <<pc, args, roi_crops, stage1_yolo_results, all_results, scale_idx,
    attempt, elapsed, reads, returned, exit, maxPassLen,
    support, scanned>>

scanVars ==
  <<scan_pc, scan_args, scan_reads, imgs_to_scan, scan_calls, all_serials,
    merged, scan_exit>>

readerVars == <<_reader, OCR_SETTINGS, constructed, thread>>

\* _reader: Optional[easyocr.Reader] = None; a reader is known by the order
\* of its construction and by the gpu argument it was constructed with
None == [id |-> 0, gpu |-> FALSE]

\* no thread is in _read_serials_from_image
NoReaders ==
  /\ _reader = None
  /\ OCR_SETTINGS = [use_gpu |-> FALSE]
  /\ constructed = 0
  /\ thread = <<>>

\* no stand-alone extract_serials call is running
NoScan ==
  /\ scan_pc = "idle"
  /\ scan_args = <<>>
  /\ scan_reads = 0
  /\ imgs_to_scan = <<>>
  /\ scan_calls = 0
  /\ all_serials = <<>>
  /\ merged = <<>>
  /\ scan_exit = "none"

normVars == <<norm_pc, norm_in, norm_out>>

\* no stand-alone call of _normalize_ambiguous is running
NoNorm ==
  /\ norm_pc = "idle"
  /\ norm_in = <<>>
  /\ norm_out = <<>>

sweepVars == <<_sweep_running, _sweep_thread, sweep, caller>>

\* no request to /params/sweep has been made
NoSweep ==
  /\ _sweep_running = FALSE
  /\ _sweep_thread = 0
  /\ sweep = <<>>
  /\ caller = <<>>

validVars == <<val_in, val_done, extended_out, validation_result, submit_out>>

\* no validator is called
NoValid ==
  /\ val_in = <<>>
  /\ val_done = {}
  /\ extended_out = <<>>
  /\ validation_result = <<>>
  /\ submit_out = FALSE

mergeVars == <<merge_in, merge_done, merge_out>>

\* no stand-alone call of _merge_and_deduplicate_results is running
NoMerge ==
  /\ merge_in = <<>>
  /\ merge_done = FALSE
  /\ merge_out = <<>>

adapterVars == <<adapter_pc, adapter_args, adapter_imgs, adapter_read>>

\* no call of extract_serials of ocr_adapter is running
NoAdapter ==
  /\ adapter_pc = "idle"
  /\ adapter_args = <<>>
  /\ adapter_imgs = <<>>
  /\ adapter_read = <<>>

jobVars == <<job_store, job_task>>

\* the router has no scan job
NoJobs ==
  /\ job_store = <<>>
  /\ job_task = <<>>

\* the variables of the specifications further down
laterVars == <<sweepVars, validVars, mergeVars, adapterVars, jobVars>>

NoLater == NoSweep /\ NoValid /\ NoMerge /\ NoAdapter /\ NoJobs

\* the arguments a with the argument `name` read
ReadFlag(a, name) ==
  {[n \in DOMAIN a \cup {name} |-> IF n = name THEN v ELSE a[n]] :
     v \in FlagValues(name)}

\* what the next pass of the request can do
PassOutcomes == PassTable[MaxReads - reads][args.min_confidence][args.early_stop_confidence]

TesseractOutcomes == TesseractTable[MaxReads - reads][args.min_confidence]

\* scales = [2.0, 3.0, 4.0, 5.0], in tenths
scales == <<20, 30, 40, 50>>

\* stage3_params["upscale_scale"], in tenths
stage3_upscale_scale == 30

\* number of entries of fallback_attempts
NumFallbackAttempts == 3

\* accept thresholds written as literals in progressive_process
YoloAccept == 80

ScaleAccept == 80

MergedAccept == 70

\* variant of StageShare: every share is the one of the stage behind
StageShare_late(stage) == CASE stage = 1 -> 7 [] OTHER -> 10

\* share of max_processing_time, in tenths, a stage may have used at its end
StageShare(stage) == CASE stage = 1 -> 4 [] stage = 2 -> 7 [] OTHER -> 10

\* share of the budget, in tenths, behind which no further scale is tried
ScaleCutoff == 8

\* variant of OverBudget: a budget of zero means no budget
OverBudget_unlimited(t, tenths) ==
  args.max_processing_time # 0 /\ t * 10 > args.max_processing_time * tenths

\* time.time() - start_time > max_processing_time * tenths / 10
OverBudget(t, tenths) == t * 10 > args.max_processing_time * tenths

TopConf(list) ==
  IF list = <<>> THEN -1
  ELSE CHOOSE c \in {list[i][2] : i \in 1..Len(list)} :
         \A i \in 1..Len(list) : list[i][2] <= c

Init ==
  /\ NoScan
  /\ NoReaders
  /\ NoNorm
  /\ NoLater
  /\ pc = "start"
  /\ args \in [decodable : BOOLEAN,
               min_confidence : MinConfidences,
               early_stop_confidence : EarlyStops,
               max_processing_time : MaxTimes]
  /\ roi_crops = 0
  /\ stage1_yolo_results = <<>>
  /\ all_results = <<>>
  /\ scale_idx = 1
  /\ attempt = 1
  /\ elapsed = 0
  /\ reads = 0
  /\ returned = <<>>
  /\ exit = "none"
  /\ maxPassLen = 0
  /\ support = <<>>
  /\ scanned = <<>>

Return(list, how) == pc' = "done" /\ returned' = list /\ exit' = how

Goto(label) == pc' = label /\ UNCHANGED <<returned, exit>>

\* the sums of two bags of hits
AddSums(f, g) ==
  [key \in DOMAIN f \cup DOMAIN g |->
     (IF key \in DOMAIN f THEN f[key] ELSE 0) + (IF key \in DOMAIN g THEN g[key] ELSE 0)]

\* bookkeeping of a pass that took dur ticks and ended
\* with out = <<engine results consumed, list returned, hit sums>>
Ran(dur, out) ==
  /\ elapsed' = Min2(elapsed + dur, MaxElapsed)
  /\ reads' = reads + out[1]
  /\ maxPassLen' = Max2(maxPassLen, Len(out[2]))
  /\ support' = AddSums(support, out[3])
  /\ scanned' = IF pc = "stage4_tesseract" THEN scanned ELSE <<out[2], out[4]>>

\* lines 873-891: the region detector; roi_crops stays empty if it is
\* switched off, raises, or cannot decode the bytes
DetectRegions ==
  /\ pc = "start"
  /\ \E use_yolo_roi \in FlagValues("use_yolo_roi") :
       IF use_yolo_roi
         THEN \E n \in detect_serial_regions(args.decodable) :
                roi_crops' = n /\ pc' = IF n = 0 THEN "stage1" ELSE "yolo_crop"
         ELSE roi_crops' = 0 /\ pc' = "stage1"
  /\ UNCHANGED <<args, stage1_yolo_results, all_results, scale_idx, attempt,
                 elapsed, reads, returned, exit, maxPassLen,
                 support, scanned>>

\* lines 896-928: one crop of the loop, and the check behind the loop
YoloCrop ==
  /\ pc = "yolo_crop"
  /\ \E out \in PassOutcomes, dur \in 1..MaxDur :
       LET crop_results == out[2]
           yolo == stage1_yolo_results \o crop_results
       IN /\ Ran(dur, out)
          /\ stage1_yolo_results' = yolo
          /\ roi_crops' = roi_crops - 1
          /\ IF roi_crops > 1
               THEN Goto("yolo_crop") /\ UNCHANGED all_results
             ELSE IF yolo # <<>> /\ yolo[1][2] >= YoloAccept
               THEN Return(SortedDesc(yolo), "yolo_success") /\ UNCHANGED all_results
             ELSE Goto("stage1") /\ all_results' = all_results \o yolo
  /\ UNCHANGED <<args, scale_idx, attempt>>

\* lines 930-957: the full image with fast settings, end of stage 1.
\* extract_serials starts with preprocess_image (line 1253) and nothing
\* around the call at line 931 catches what it raises; the later passes of
\* the full image are only reached with bytes that stage 1 could decode
Stage1Full ==
  /\ pc = "stage1"
  /\ IF preprocess_image(args.decodable) = "ValueError"
       THEN /\ Return(<<>>, "ValueError")
            /\ UNCHANGED <<all_results, elapsed, reads, maxPassLen, support, scanned>>
       ELSE \E out \in PassOutcomes, dur \in 1..MaxDur :
              LET stage1_full_results == out[2]
                  pool == all_results \o stage1_full_results
                  t == Min2(elapsed + dur, MaxElapsed)
              IN /\ Ran(dur, out)
                 /\ all_results' = pool
                 /\ IF pool # <<>> /\ pool[1][2] >= args.early_stop_confidence
                      THEN Return(SortedDesc(pool), "stage1_success")
                    ELSE IF OverBudget(t, StageShare(1))
                      THEN Return(pool, "stage1_timeout")
                    ELSE \E try_invert \in FlagValues("try_invert") :
                           Goto(IF try_invert THEN "stage2_inv" ELSE "stage2_enhanced")
  /\ UNCHANGED <<args, roi_crops, stage1_yolo_results, scale_idx, attempt>>

\* lines 962-986: stage 2, the inverted image
Stage2Inv ==
  /\ pc = "stage2_inv"
  /\ \E out \in PassOutcomes, dur \in 1..MaxDur :
       LET stage2_inv_results == out[2]
           pool == all_results \o stage2_inv_results
       IN /\ Ran(dur, out)
          /\ all_results' = pool
          /\ IF stage2_inv_results # <<>>
                  /\ stage2_inv_results[1][2] >= args.early_stop_confidence
               THEN Return(SortedDesc(pool), "stage2_inv_success")
               ELSE Goto("stage2_enhanced")
  /\ UNCHANGED <<args, roi_crops, stage1_yolo_results, scale_idx, attempt>>

\* lines 988-1016: stage 2, enhanced preprocessing, end of stage 2
Stage2Enhanced ==
  /\ pc = "stage2_enhanced"
  /\ \E out \in PassOutcomes, dur \in 1..MaxDur :
       LET stage2_enhanced_results == out[2]
           pool == all_results \o stage2_enhanced_results
           t == Min2(elapsed + dur, MaxElapsed)
       IN /\ Ran(dur, out)
          /\ all_results' = pool
          /\ IF pool # <<>> /\ pool[1][2] >= args.early_stop_confidence
               THEN Return(SortedDesc(pool), "stage2_success")
             ELSE IF OverBudget(t, StageShare(2))
               THEN Return(pool, "stage2_timeout")
             ELSE Goto("stage3")
  /\ UNCHANGED <<args, roi_crops, stage1_yolo_results, scale_idx, attempt>>

\* index of the first scale from i on that stage 3 has not tried yet
\* (`if scale == stage3_params.get("upscale_scale"): continue`)
RECURSIVE NextScale(_)
NextScale(i) ==
  IF i > Len(scales) \/ scales[i] # stage3_upscale_scale THEN i ELSE NextScale(i + 1)

\* head of `for scale in scales` at index i and time t: where the request
\* goes, and the index of the scale it tries
ScaleLoopHead(i, t) ==
  IF NextScale(i) > Len(scales) \/ OverBudget(t, ScaleCutoff)
    THEN Goto("stage3_end") /\ scale_idx' = scale_idx
    ELSE Goto("stage3_scale") /\ scale_idx' = NextScale(i)

\* lines 1021-1057: stage 3, full preprocessing
Stage3 ==
  /\ pc = "stage3"
  /\ \E out \in PassOutcomes, dur \in 1..MaxDur :
       LET stage3_results == out[2]
           pool == all_results \o stage3_results
           t == Min2(elapsed + dur, MaxElapsed)
       IN /\ Ran(dur, out)
          /\ all_results' = pool
          /\ IF pool # <<>> /\ pool[1][2] >= args.early_stop_confidence
               THEN /\ Return(SortedDesc(pool), "stage3_early_success")
                    /\ UNCHANGED scale_idx
               ELSE \E try_multi_scale \in FlagValues("try_multi_scale") :
                      IF try_multi_scale
                        THEN ScaleLoopHead(1, t)
                        ELSE Goto("stage3_end") /\ scale_idx' = scale_idx
  /\ UNCHANGED <<args, roi_crops, stage1_yolo_results, attempt>>

\* lines 1057-1090: one scale of the multi-scale loop
Stage3Scale ==
  /\ pc = "stage3_scale"
  /\ \E out \in PassOutcomes, dur \in 1..MaxDur :
       LET scale_results == out[2]
           t == Min2(elapsed + dur, MaxElapsed)
       IN /\ Ran(dur, out)
          /\ all_results' = all_results \o scale_results
          /\ IF scale_results # <<>> /\ scale_results[1][2] >= ScaleAccept
               THEN Goto("stage3_end") /\ scale_idx' = scale_idx
               ELSE ScaleLoopHead(scale_idx + 1, t)
  /\ UNCHANGED <<args, roi_crops, stage1_yolo_results, attempt>>

\* variant of TesseractEnabled: the strategy alone decides
TesseractEnabled_by_strategy(use_tesseract_fallback, TESSERACT_AVAILABLE, fallback_strategy) ==
  fallback_strategy \in {"hybrid", "tesseract_only"}

\* the Tesseract condition of stage 4 (line 1143)
TesseractEnabled(use_tesseract_fallback, TESSERACT_AVAILABLE, fallback_strategy) ==
  /\ use_tesseract_fallback
  /\ TESSERACT_AVAILABLE
  /\ fallback_strategy \in {"hybrid", "tesseract_only"}

\* behind the enhanced EasyOCR fallback: Tesseract if enabled, else the
\* final merge
AfterEnhancedFallback(a) ==
  \E b \in ReadFlag(a, "use_tesseract_fallback") :
    \E c \in ReadFlag(b, "TESSERACT_AVAILABLE") :
      /\ args' = c
      /\ Goto(IF TesseractEnabled(c.use_tesseract_fallback, c.TESSERACT_AVAILABLE,
                                  c.fallback_strategy)
                THEN "stage4_tesseract" ELSE "final")

\* lines 1092-1110: merge behind stage 3, accept and time checks, and the
\* choice of the fallback
Stage3End ==
  /\ pc = "stage3_end"
  /\ LET results == _merge_and_deduplicate_results(all_results)
     IN IF results # <<>> /\ results[1][2] >= MergedAccept
          THEN Return(results, "stage3_success") /\ UNCHANGED args
        ELSE IF OverBudget(elapsed, StageShare(3))
          THEN Return(results, "stage3_timeout") /\ UNCHANGED args
        ELSE \E production_mode \in FlagValues("production_mode"),
                a \in ReadFlag(args, "fallback_strategy") :
               IF production_mode \/ a.fallback_strategy # "easyocr_only"
                 THEN IF a.fallback_strategy \in {"hybrid", "easyocr_only"}
                        THEN args' = a /\ Goto("stage4_enhanced")
                        ELSE AfterEnhancedFallback(a)
                 ELSE args' = a /\ Goto("final")
  /\ UNCHANGED <<roi_crops, stage1_yolo_results, all_results, scale_idx,
                 attempt, elapsed, reads, maxPassLen, support, scanned>>

\* lines 1113-1140: one attempt of the enhanced EasyOCR fallback
Stage4Enhanced ==
  /\ pc = "stage4_enhanced"
  /\ \E out \in PassOutcomes, dur \in 1..MaxDur :
       LET enhanced_results == out[2]
       IN /\ Ran(dur, out)
          /\ all_results' = all_results \o enhanced_results
          /\ attempt' = attempt + 1
          /\ IF enhanced_results # <<>> \/ attempt = NumFallbackAttempts
               THEN AfterEnhancedFallback(args)
               ELSE Goto("stage4_enhanced") /\ UNCHANGED args
  /\ UNCHANGED <<roi_crops, stage1_yolo_results, scale_idx>>

\* lines 1142-1175: the Tesseract fallback
Stage4Tesseract ==
  /\ pc = "stage4_tesseract"
  /\ \E out \in TesseractOutcomes, dur \in 1..MaxDur :
       LET tesseract_results == out[2]
       IN /\ Ran(dur, out)
          /\ all_results' = all_results \o tesseract_results
          /\ Goto("final")
  /\ UNCHANGED <<args, roi_crops, stage1_yolo_results, scale_idx, attempt>>

\* lines 1177-1193: final merge and return
Finish ==
  /\ pc = "final"
  /\ Return(_merge_and_deduplicate_results(all_results), "final")
  /\ UNCHANGED <<args, roi_crops, stage1_yolo_results, all_results, scale_idx,
                 attempt, elapsed, reads, maxPassLen, support, scanned>>

Next ==
  \/ DetectRegions /\ UNCHANGED <<scanVars, readerVars, normVars, laterVars>>
  \/ YoloCrop /\ UNCHANGED <<scanVars, readerVars, normVars, laterVars>>
  \/ Stage1Full /\ UNCHANGED <<scanVars, readerVars, normVars, laterVars>>
  \/ Stage2Inv /\ UNCHANGED <<scanVars, readerVars, normVars, laterVars>>
  \/ Stage2Enhanced /\ UNCHANGED <<scanVars, readerVars, normVars, laterVars>>
  \/ Stage3 /\ UNCHANGED <<scanVars, readerVars, normVars, laterVars>>
  \/ Stage3Scale /\ UNCHANGED <<scanVars, readerVars, normVars, laterVars>>
  \/ Stage3End /\ UNCHANGED <<scanVars, readerVars, normVars, laterVars>>
  \/ Stage4Enhanced /\ UNCHANGED <<scanVars, readerVars, normVars, laterVars>>
  \/ Stage4Tesseract /\ UNCHANGED <<scanVars, readerVars, normVars, laterVars>>
  \/ Finish /\ UNCHANGED <<scanVars, readerVars, normVars, laterVars>>

Spec == Init /\ [][Next]_vars

\* ------------------------------------------------------------------------
\* extract_serials on its own, one recognizer call per step
\* ------------------------------------------------------------------------

\* engine results of the stand-alone scan
ScanOutputs ==
  {<<TextA, 50>>, <<TextA, 60>>, <<TextB, 30>>, <<TextLower, 96>>}

\* most engine results (over all its recognizer calls) in one scan
MaxScanReads == 2

ScanMinConfidences == {0, 40}

\* no request is running
NoRequest ==
  /\ pc = "idle"
  /\ args = <<>>
  /\ roi_crops = 0
  /\ stage1_yolo_results = <<>>
  /\ all_results = <<>>
  /\ scale_idx = 1
  /\ attempt = 1
  /\ elapsed = 0
  /\ reads = 0
  /\ returned = <<>>
  /\ exit = "none"
  /\ maxPassLen = 0
  /\ support = <<>>
  /\ scanned = <<>>

\* numbers of bands _find_rois_by_projection finds in the image
BandCounts == {0, 1, 2}

\* lengths of rotation_angles (lines 1289-1304)
AngleCounts == {1, 2}

InitScan ==
  /\ NoRequest
  /\ NoReaders
  /\ NoNorm
  /\ NoLater
  /\ scan_pc = "regions"
  /\ scan_args \in [min_confidence : ScanMinConfidences,
                    early_stop_confidence : EarlyStops,
                    enable_early_stop : BOOLEAN,
                    roi : BOOLEAN,
                    bands : BandCounts,
                    angles : AngleCounts]
  /\ scan_reads = 0
  /\ imgs_to_scan = <<>>
  /\ scan_calls = 0
  /\ all_serials = <<>>
  /\ merged = <<>>
  /\ scan_exit = "none"

\* the full frame rgb_full, and the slice of it for band number i
FullFrame == <<"rgb_full", 0>>

Band(i) == <<"band", i>>

\* variant of RegionsOf: with roi the bands alone are the regions
RegionsOf_bands_only(roi, bands) ==
  IF roi THEN [i \in 1..bands |-> Band(i)] ELSE <<FullFrame>>

\* lines 1271-1285: the regions to scan, given the argument roi and the
\* number of bands the projection heuristic finds
RegionsOf(roi, bands) ==
  IF roi
    THEN IF bands = 0 THEN <<FullFrame>> ELSE [i \in 1..bands |-> Band(i)]
    ELSE <<FullFrame>>

\* lines 1253-1304: preprocessing, the regions and the rotation angles
ScanRegions ==
  /\ scan_pc = "regions"
  /\ imgs_to_scan' = RegionsOf(scan_args.roi, scan_args.bands)
  /\ scan_pc' = "scan"
  /\ UNCHANGED <<scan_args, scan_reads, scan_calls, all_serials, merged,
                 scan_exit, requestVars, readerVars, normVars, laterVars>>

\* recognizer calls of the scan loop: for each region and each angle the
\* image and its inverse
ScanLength == Len(imgs_to_scan) * scan_args.angles * 2

\* the region of recognizer call number k of the scan loop
RegionOfCall(k) == imgs_to_scan[((k - 1) \div (scan_args.angles * 2)) + 1]

\* what one recognizer call can return when it reports n engine results
ReadTable ==
  [n \in 0..MaxScanReads |->
     [m \in ScanMinConfidences |->
        UNION {_read_serials_from_image(engine, m) : engine \in [1..n -> ScanOutputs]}]]

\* lines 1306-1342: one pass of the body of the scan loop for one image
\* (normal or inverted): the recognizer call and the early-stop check
ScanCall ==
  /\ scan_pc = "scan"
  /\ scan_calls < ScanLength
  /\ scan_calls' = scan_calls + 1
  /\ \E n \in 0..(MaxScanReads - scan_reads) :
       \E results \in ReadTable[n][scan_args.min_confidence] :
         /\ all_serials' = all_serials \o results
         /\ scan_reads' = scan_reads + n
         /\ IF scan_args.enable_early_stop /\ results # <<>>
                 /\ MaxByConf(results)[2] >= scan_args.early_stop_confidence
              THEN /\ merged' = <<MaxByConf(results)>>
                   /\ scan_pc' = "done"
                   /\ scan_exit' = "early_stop"
              ELSE UNCHANGED <<merged, scan_pc, scan_exit>>
  /\ UNCHANGED <<scan_args, imgs_to_scan, requestVars, readerVars, normVars, laterVars>>

\* lines 1344-1357: the loops are through; aggregate and return
ScanAggregate ==
  /\ scan_pc = "scan"
  /\ scan_calls = ScanLength
  /\ merged' = Aggregate(all_serials)
  /\ scan_pc' = "done"
  /\ scan_exit' = "aggregated"
  /\ UNCHANGED <<scan_args, scan_reads, imgs_to_scan, scan_calls, all_serials,
                 requestVars, readerVars, normVars, laterVars>>

NextScan == ScanRegions \/ ScanCall \/ ScanAggregate

SpecScan == InitScan /\ [][NextScan]_vars

\* ------------------------------------------------------------------------
\* _read_serials_from_image and _get_reader, called from two threads: the
\* handlers declared with `def` (/evaluate) run in the worker threads of the
\* server, those declared with `async def` in the thread of the event loop
\* ------------------------------------------------------------------------
Threads == {1, 2}

\* most calls of _read_serials_from_image one thread makes after its first
MaxReaderCalls == 1

\* most easyocr.Reader objects constructed
MaxReaders == 3

\* what reader.readtext can report in this specification
ReaderOutputs == {<<>>, <<<<TextShort, 96>>>>, <<<<TextB, 30>>>>}

\* a thread that enters _read_serials_from_image, after `calls` earlier calls
EnterRead(calls) ==
  [pc |-> "check", reader |-> None, use_gpu |-> FALSE, retry |-> FALSE,
   readtexts |-> 0, errors |-> 0, results |-> <<>>, calls |-> calls]

InitReader ==
  /\ NoRequest
  /\ NoScan
  /\ NoNorm
  /\ NoLater
  /\ _reader = None
  /\ OCR_SETTINGS \in [use_gpu : BOOLEAN]
  /\ constructed = 0
  /\ thread = [t \in Threads |-> EnterRead(0)]

\* thread t moves to position label, with the locals changed as in `with`
Move(t, label, with) ==
  thread' = [thread EXCEPT ![t] =
               [f \in DOMAIN @ |-> IF f = "pc" THEN label
                                   ELSE IF f \in DOMAIN with THEN with[f]
                                   ELSE @[f]]]

\* variant of RetryOnError: a failed call is always retried
RetryOnError_always(use_gpu) == TRUE

\* line 672: the handler of a failed recognizer call retries on the CPU if
\* OCR_SETTINGS["use_gpu"] is set
RetryOnError(use_gpu) == use_gpu

\* _get_reader, lines 25-27: `if _reader is None`, and the setting it reads
GetReaderCheck(t) ==
  /\ thread[t].pc = "check"
  /\ IF _reader = None
       THEN Move(t, "construct", [use_gpu |-> OCR_SETTINGS.use_gpu])
       ELSE Move(t, "return", <<>>)
  /\ UNCHANGED <<_reader, OCR_SETTINGS, constructed>>

\* _get_reader, line 69: `_reader = easyocr.Reader(languages, gpu=use_gpu)`;
\* what the constructor raises leaves _get_reader and its caller
GetReaderConstruct(t) ==
  /\ thread[t].pc = "construct"
  /\ \/ /\ constructed < MaxReaders
        /\ constructed' = constructed + 1
        /\ _reader' = [id |-> constructed + 1, gpu |-> thread[t].use_gpu]
        /\ Move(t, "return", <<>>)
     \/ /\ Move(t, "raised", <<>>)
        /\ UNCHANGED <<_reader, constructed>>
  /\ UNCHANGED OCR_SETTINGS

\* _get_reader, line 70: `return _reader`, to line 604 or to line 681
GetReaderReturn(t) ==
  /\ thread[t].pc = "return"
  /\ Move(t, IF thread[t].retry THEN "retry_readtext" ELSE "readtext",
          [reader |-> _reader])
  /\ UNCHANGED <<_reader, OCR_SETTINGS, constructed>>

\* lines 606-668 and 702-710: reader.readtext and, if it returns, the
\* post-processing of its results; on None it raises AttributeError
ReadText(t) ==
  /\ thread[t].pc = "readtext"
  /\ \/ /\ thread[t].reader # None
        /\ \E out \in ReaderOutputs :
             \E hits \in _read_serials_from_image(out, 0) :
               Move(t, "returned", [readtexts |-> 1, results |-> hits])
     \/ Move(t, "except", [readtexts |-> 1, errors |-> 1])
  /\ UNCHANGED <<_reader, OCR_SETTINGS, constructed>>

\* lines 669-679 and 697-700: the handler of the failed call
Except(t) ==
  /\ thread[t].pc = "except"
  /\ IF RetryOnError(OCR_SETTINGS.use_gpu)
       THEN /\ _reader' = None
            /\ Move(t, "force_cpu", [retry |-> TRUE])
       ELSE /\ Move(t, "returned", [results |-> <<>>])
            /\ UNCHANGED _reader
  /\ UNCHANGED <<OCR_SETTINGS, constructed>>

\* lines 680-681: OCR_SETTINGS["use_gpu"] = False, then _get_reader()
ForceCpu(t) ==
  /\ thread[t].pc = "force_cpu"
  /\ OCR_SETTINGS' = [OCR_SETTINGS EXCEPT !.use_gpu = FALSE]
  /\ Move(t, "check", <<>>)
  /\ UNCHANGED <<_reader, constructed>>

\* variant of OnRetryError: the error of the retry is raised again
OnRetryError_raise == "raised"

\* lines 693-696: the error of the retry is logged and [] is returned
OnRetryError == "returned"

\* lines 683-696 and 702-710: the retry of reader.readtext
RetryReadText(t) ==
  /\ thread[t].pc = "retry_readtext"
  /\ \/ /\ thread[t].reader # None
        /\ \E out \in ReaderOutputs :
             \E hits \in _read_serials_from_image(out, 0) :
               Move(t, "returned", [readtexts |-> 2, results |-> hits])
     \/ Move(t, OnRetryError, [readtexts |-> 2, errors |-> 2, results |-> <<>>])
  /\ UNCHANGED <<_reader, OCR_SETTINGS, constructed>>

\* extract_serials, lines 1306-1335: the scan loop goes on with the next
\* image after a call that returned
NextCall(t) ==
  /\ thread[t].pc = "returned"
  /\ thread[t].calls < MaxReaderCalls
  /\ thread' = [thread EXCEPT ![t] = EnterRead(thread[t].calls + 1)]
  /\ UNCHANGED <<_reader, OCR_SETTINGS, constructed>>

NextReader ==
  \E t \in Threads :
    \/ GetReaderCheck(t) /\ UNCHANGED <<requestVars, scanVars, normVars, laterVars>>
    \/ GetReaderConstruct(t) /\ UNCHANGED <<requestVars, scanVars, normVars, laterVars>>
    \/ GetReaderReturn(t) /\ UNCHANGED <<requestVars, scanVars, normVars, laterVars>>
    \/ ReadText(t) /\ UNCHANGED <<requestVars, scanVars, normVars, laterVars>>
    \/ Except(t) /\ UNCHANGED <<requestVars, scanVars, normVars, laterVars>>
    \/ ForceCpu(t) /\ UNCHANGED <<requestVars, scanVars, normVars, laterVars>>
    \/ RetryReadText(t) /\ UNCHANGED <<requestVars, scanVars, normVars, laterVars>>
    \/ NextCall(t) /\ UNCHANGED <<requestVars, scanVars, normVars, laterVars>>

SpecReader == InitReader /\ [][NextReader]_vars

\* ------------------------------------------------------------------------
\* _normalize_ambiguous on its own
\* ------------------------------------------------------------------------
\* the characters that a look-alike substitution of the table puts for ch
LookAlikes(ch) ==
  {c \in _ALLOWED : _AMBIGUOUS_MAP(c) = ch \/ _AMBIGUOUS_MAP(ch) = c}

\* texts of 12 and of 11 characters without a look-alike character
NormBases ==
  {<<"A","A","A","A","A","A","A","A","A","A","A","A">>,
   <<"A","A","A","A","A","A","A","A","A","A","A">>}

\* the characters put into the texts
NormChars ==
  {"A", "C", "E", "J", "Y", "3", "O", "Q", "D", "0", "I", "L", "1", "Z", "2",
   "S", "5", "G", "6", "T", "7", "B", "8"}

\* a text, and the same text or the text with one look-alike substitution
NormInputs ==
  UNION {UNION {{<<ReplaceAt(b, idx, ch), ReplaceAt(b, idx, c)>> :
                   c \in {ch} \cup LookAlikes(ch)} :
                  idx \in 0..(Len(b) - 1), ch \in NormChars} : b \in NormBases}

InitNorm ==
  /\ NoRequest
  /\ NoScan
  /\ NoReaders
  /\ NoLater
  /\ norm_pc = "call"
  /\ norm_in \in NormInputs
  /\ norm_out = <<>>

\* _normalize_ambiguous(text) and _normalize_ambiguous(text,
\* position_aware=True) for both texts
NormalizeTexts ==
  /\ norm_pc = "call"
  /\ norm_out' = [plain |-> [k \in 1..2 |-> _normalize_ambiguous(norm_in[k], FALSE)],
                  aware |-> [k \in 1..2 |-> _normalize_ambiguous(norm_in[k], TRUE)]]
  /\ norm_pc' = "done"
  /\ UNCHANGED <<norm_in, requestVars, scanVars, readerVars, laterVars>>

NextNorm == NormalizeTexts

SpecNorm == InitNorm /\ [][NextNorm]_vars

\* ------------------------------------------------------------------------
\* The parameter sweep of param_cache: POST /params/sweep is declared with
\* `def`, so two requests run in two worker threads of the server
\* ------------------------------------------------------------------------
SweepCallers == {1, 2}

\* most sweep threads that are started
MaxSweeps == 2

\* how subprocess.run and the lines behind it end: the sweep exits with 0
\* and its result is saved, it exits with another code, or an exception is
\* raised (by subprocess.run, json.load or save_best_params)
SweepOutcomes == {"saved", "nonzero", "raised"}

\* the variables of the other specifications
notSweepVars == <<requestVars, scanVars, readerVars, normVars, validVars, mergeVars, adapterVars, jobVars>>

InitSweep ==
  /\ NoRequest
  /\ NoScan
  /\ NoReaders
  /\ NoNorm
  /\ NoValid
  /\ NoMerge
  /\ NoAdapter
  /\ NoJobs
  /\ _sweep_running = FALSE
  /\ _sweep_thread = 0
  /\ sweep = [n \in 1..MaxSweeps |-> [pc |-> "unstarted", outcome |-> "none"]]
  /\ caller = [c \in SweepCallers |-> [pc |-> "idle", response |-> "none"]]

\* trigger_param_sweep, lines 597-598: 409 while is_sweep_running()
TriggerCheck(c) ==
  /\ caller[c].pc = "idle"
  /\ caller' = [caller EXCEPT ![c] =
                  IF _sweep_running THEN [pc |-> "idle", response |-> "409"]
                  ELSE [pc |-> "schedule", response |-> "none"]]
  /\ UNCHANGED <<_sweep_running, _sweep_thread, sweep>>

\* schedule_param_sweep, lines 184-185: `if _sweep_running: return False`,
\* which the handler answers with 500 (lines 602-603)
ScheduleCheck(c) ==
  /\ caller[c].pc = "schedule"
  /\ caller' = [caller EXCEPT ![c] =
                  IF _sweep_running THEN [pc |-> "idle", response |-> "500"]
                  ELSE [pc |-> "start", response |-> "none"]]
  /\ UNCHANGED <<_sweep_running, _sweep_thread, sweep>>

\* schedule_param_sweep, lines 187-193: the thread is created and started,
\* True is returned and the handler answers "scheduled"
ScheduleStart(c) ==
  /\ caller[c].pc = "start"
  /\ _sweep_thread < MaxSweeps
  /\ _sweep_thread' = _sweep_thread + 1
  /\ sweep' = [sweep EXCEPT ![_sweep_thread + 1].pc = "started"]
  /\ caller' = [caller EXCEPT ![c] = [pc |-> "idle", response |-> "scheduled"]]
  /\ UNCHANGED _sweep_running

\* _run_param_sweep, line 131: _sweep_running = True
SweepSetFlag(n) ==
  /\ sweep[n].pc = "started"
  /\ _sweep_running' = TRUE
  /\ sweep' = [sweep EXCEPT ![n].pc = "subprocess"]
  /\ UNCHANGED <<_sweep_thread, caller>>

\* _run_param_sweep, lines 133-164: the body of the try
SweepRun(n) ==
  /\ sweep[n].pc = "subprocess"
  /\ \E outcome \in SweepOutcomes :
       sweep' = [sweep EXCEPT ![n] = [pc |-> "finally", outcome |-> outcome]]
  /\ UNCHANGED <<_sweep_running, _sweep_thread, caller>>

\* variant of FlagAfter: the flag is cleared at the end of the try, not in a
\* finally clause
FlagAfter_no_finally(running, outcome) == IF outcome = "raised" THEN running ELSE FALSE

\* _sweep_running behind the try statement, lines 166-167:
\* finally: _sweep_running = False
FlagAfter(running, outcome) == FALSE

\* _run_param_sweep, lines 166-167, and the end of the thread
SweepFinally(n) ==
  /\ sweep[n].pc = "finally"
  /\ _sweep_running' = FlagAfter(_sweep_running, sweep[n].outcome)
  /\ sweep' = [sweep EXCEPT ![n].pc = "done"]
  /\ UNCHANGED <<_sweep_thread, caller>>

\* one step of sweep thread n
SweepStep(n) ==
  \/ SweepSetFlag(n) /\ UNCHANGED notSweepVars
  \/ SweepRun(n) /\ UNCHANGED notSweepVars
  \/ SweepFinally(n) /\ UNCHANGED notSweepVars

NextSweep ==
  \/ \E c \in SweepCallers :
       \/ TriggerCheck(c) /\ UNCHANGED notSweepVars
       \/ ScheduleCheck(c) /\ UNCHANGED notSweepVars
       \/ ScheduleStart(c) /\ UNCHANGED notSweepVars
  \/ \E n \in 1..MaxSweeps : SweepStep(n)

SpecSweep == InitSweep /\ [][NextSweep]_vars

\* a thread that was started runs: each sweep thread takes its next step
\* (subprocess.run is taken to return or raise)
SpecSweepFair ==
  SpecSweep /\ \A n \in 1..MaxSweeps : WF_vars(SweepStep(n))

\* ------------------------------------------------------------------------
\* The validators on their own: validate_apple_serial_extended of the
\* server, validate_with_corrections and should_submit_to_backend of the
\* client
\* ------------------------------------------------------------------------
\* the first three characters, the middle five and the last four of the
\* serials the validators are called with
ValPrefixes ==
  {<<"C","0","2">>, <<"F","5","K">>, <<"G","8","V">>, <<"Y","M","2">>,
   <<"X","9","9">>, <<"A","9","9">>, <<"1","A","A">>, <<"C","1","7">>,
   <<"2","B","A">>}

ValMiddles ==
  {<<"A","A","A","A","A">>, <<"A","7","H","2","C">>, <<"O","I","S","Z","A">>}

ValTails ==
  {<<"A","A","A","A">>, <<"A","A","A","3">>, <<"7","2","4","6">>, <<"1","0","5","8">>}

\* the serials: twelve characters, and some that are not
ValSerials ==
  {p \o mid \o t : p \in ValPrefixes, mid \in ValMiddles, t \in ValTails}
  \cup {<<>>, <<"C","0","2">>,
        <<" ","c","0","2","a","7","h","2","c","a","a","a","3"," ">>,
        <<"C","0","2","A","7","H","2","C","A","A","-","3">>}

\* OCR confidences, in hundredths
ValConfidences == {0, 55, 65, 75, 85, 100}

notValidVars == <<requestVars, scanVars, readerVars, normVars, sweepVars, mergeVars, adapterVars, jobVars>>

InitValid ==
  /\ NoRequest
  /\ NoScan
  /\ NoReaders
  /\ NoNorm
  /\ NoSweep
  /\ NoMerge
  /\ NoAdapter
  /\ NoJobs
  /\ val_in \in [serial : ValSerials, confidence : ValConfidences,
                  user_confirmed : BOOLEAN]
  /\ val_done = {}
  /\ extended_out = <<>>
  /\ validation_result = <<>>
  /\ submit_out = FALSE

\* a call of validate_apple_serial_extended(serial)
ValidateExtended ==
  /\ "extended" \notin val_done
  /\ extended_out' = validate_apple_serial_extended(val_in.serial)
  /\ val_done' = val_done \cup {"extended"}
  /\ UNCHANGED <<val_in, validation_result, submit_out>>

\* a call of validate_with_corrections(serial, confidence)
ValidateClient ==
  /\ "client" \notin val_done
  /\ validation_result' = validate_with_corrections(val_in.serial, val_in.confidence)
  /\ val_done' = val_done \cup {"client"}
  /\ UNCHANGED <<val_in, extended_out, submit_out>>

\* a call of should_submit_to_backend(validation_result, user_confirmed)
ShouldSubmit ==
  /\ "client" \in val_done
  /\ "submit" \notin val_done
  /\ submit_out' = should_submit_to_backend(validation_result, val_in.user_confirmed)
  /\ val_done' = val_done \cup {"submit"}
  /\ UNCHANGED <<val_in, extended_out, validation_result>>

NextValid ==
  \/ ValidateExtended /\ UNCHANGED notValidVars
  \/ ValidateClient /\ UNCHANGED notValidVars
  \/ ShouldSubmit /\ UNCHANGED notValidVars

SpecValid == InitValid /\ [][NextValid]_vars

\* ------------------------------------------------------------------------
\* _merge_and_deduplicate_results on its own
\* ------------------------------------------------------------------------
\* longest list it is called with
MaxMergeLen == 3

\* the entries of the list: two serials, three confidences
MergeEntries == {<<t, c>> : t \in {TextA, TextB}, c \in {50, 90, 96}}

MergeInputs == UNION {[1..n -> MergeEntries] : n \in 0..MaxMergeLen}

notMergeVars == <<requestVars, scanVars, readerVars, normVars, sweepVars, validVars, adapterVars, jobVars>>

InitMerge ==
  /\ NoRequest
  /\ NoScan
  /\ NoReaders
  /\ NoNorm
  /\ NoSweep
  /\ NoValid
  /\ NoAdapter
  /\ NoJobs
  /\ merge_in \in MergeInputs
  /\ merge_done = FALSE
  /\ merge_out = <<>>

\* a call of _merge_and_deduplicate_results(results)
MergeResults ==
  /\ ~merge_done
  /\ merge_out' = _merge_and_deduplicate_results(merge_in)
  /\ merge_done' = TRUE
  /\ UNCHANGED merge_in

NextMerge == MergeResults /\ UNCHANGED notMergeVars

SpecMerge == InitMerge /\ [][NextMerge]_vars

\* ------------------------------------------------------------------------
\* extract_serials of app/pipeline/ocr_adapter.py: the regions it scans
\* ------------------------------------------------------------------------
\* most anchor boxes the keyword pass finds, and most text bands the
\* projection finds
MaxBoxes == 2

\* largest zoom_strips
MaxStrips == 3

\* heights of the processed image, in pixels
Heights == {10, 100}

\* the crop around anchor box i, and horizontal strip i (counted from 0)
KeywordCrop(i) == <<"keyword", i>>

Strip(i) == <<"strip", i>>

\* lines 511-518: the strips of an image of height h that are kept
StripsOf(h, zoom_strips) ==
  LET strip_h == Max2(1, h \div zoom_strips)
      y0(i) == i * strip_h
      y1(i) == IF i = zoom_strips - 1 THEN h ELSE Min2(h, y0(i) + strip_h)
      kept == {i \in 0..(zoom_strips - 1) : ~(y1(i) - y0(i) < Max2(8, h \div 40))}
  IN SelectSeq([k \in 1..zoom_strips |-> Strip(k - 1)], LAMBDA r : r[2] \in kept)

\* lines 491-528: imgs_to_scan
AdapterRegions(a) ==
  IF a.roi
    THEN IF a.bands = 0 THEN <<FullFrame>> ELSE [i \in 1..a.bands |-> Band(i)]
  ELSE
    LET crops == IF a.keyword_crop THEN [i \in 1..a.boxes |-> KeywordCrop(i)] ELSE <<>>
    IN IF a.zoom_strips > 1
         THEN LET found == crops \o StripsOf(a.h, a.zoom_strips)
              IN IF found = <<>> THEN <<FullFrame>> ELSE Append(found, FullFrame)
         ELSE <<FullFrame>>

notAdapterVars == <<requestVars, scanVars, readerVars, normVars, sweepVars, validVars, mergeVars, jobVars>>

InitAdapter ==
  /\ NoRequest
  /\ NoScan
  /\ NoReaders
  /\ NoNorm
  /\ NoSweep
  /\ NoValid
  /\ NoMerge
  /\ NoJobs
  /\ adapter_pc = "regions"
  /\ adapter_args \in [roi : BOOLEAN, keyword_crop : BOOLEAN,
                       zoom_strips : 0..MaxStrips, boxes : 0..MaxBoxes,
                       bands : 0..MaxBoxes, h : Heights]
  /\ adapter_imgs = <<>>
  /\ adapter_read = <<>>

\* lines 488-528: the regions are chosen
ChooseRegions ==
  /\ adapter_pc = "regions"
  /\ adapter_imgs' = AdapterRegions(adapter_args)
  /\ adapter_pc' = "scan"
  /\ UNCHANGED <<adapter_args, adapter_read>>

\* lines 533-572: one pass of `for rgb, rgb_inv in zip(imgs_to_scan,
\* inv_to_scan)`: the region is passed to the recognizer at every angle,
\* as it is and inverted
ReadRegion ==
  /\ adapter_pc = "scan"
  /\ Len(adapter_read) < Len(adapter_imgs)
  /\ adapter_read' = Append(adapter_read, adapter_imgs[Len(adapter_read) + 1])
  /\ UNCHANGED <<adapter_pc, adapter_args, adapter_imgs>>

\* lines 574-589: the loop is through, the hits are aggregated
AdapterAggregate ==
  /\ adapter_pc = "scan"
  /\ Len(adapter_read) = Len(adapter_imgs)
  /\ adapter_pc' = "done"
  /\ UNCHANGED <<adapter_args, adapter_imgs, adapter_read>>

NextAdapter ==
  \/ ChooseRegions /\ UNCHANGED notAdapterVars
  \/ ReadRegion /\ UNCHANGED notAdapterVars
  \/ AdapterAggregate /\ UNCHANGED notAdapterVars

SpecAdapter == InitAdapter /\ [][NextAdapter]_vars

\* ------------------------------------------------------------------------
\* Scan jobs of the router: submit_scan and process_scan_background. The
\* task has no await, so the event loop runs it from its first statement to
\* its last before it runs anything else.
\* ------------------------------------------------------------------------
Jobs == {1, 2}

\* what progressive_process returns to the task: lists of (serial,
\* confidence) tuples
PipelineResults ==
  {<<>>, <<<<TextA, 96>>>>, <<<<TextA, 96>>, <<TextB, 80>>>>, <<<<TextB, 60>>>>}

\* a job that was not submitted
NoJob == [status |-> "none", progress |-> 0, results |-> <<>>, error |-> "none"]

\* the task of a job that was not submitted
NoTask == [pc |-> "unsubmitted", results |-> <<>>, raised |-> FALSE]

\* no task is between its first and its last statement
NoTaskRunning == \A j \in Jobs : job_task[j].pc \in {"unsubmitted", "queued", "done"}

notJobVars == <<requestVars, scanVars, readerVars, normVars, sweepVars, validVars, mergeVars, adapterVars>>

InitJob ==
  /\ NoRequest
  /\ NoScan
  /\ NoReaders
  /\ NoNorm
  /\ NoSweep
  /\ NoValid
  /\ NoMerge
  /\ NoAdapter
  /\ job_store = [j \in Jobs |-> NoJob]
  /\ job_task = [j \in Jobs |-> NoTask]

\* submit_scan, lines 75-90: the job is stored as pending and its task added
SubmitScan(j) ==
  /\ job_task[j].pc = "unsubmitted"
  /\ NoTaskRunning
  /\ job_store' = [job_store EXCEPT ![j] = [NoJob EXCEPT !.status = "pending"]]
  /\ job_task' = [job_task EXCEPT ![j].pc = "queued"]

\* process_scan_background, lines 131-134
StartProcessing(j) ==
  /\ job_task[j].pc = "queued"
  /\ NoTaskRunning
  /\ job_store' = [job_store EXCEPT ![j].status = "processing", ![j].progress = 10]
  /\ job_task' = [job_task EXCEPT ![j].pc = "started"]

\* process_scan_background, lines 137-161: the preset and the arguments of
\* the pipeline are chosen, progress goes to 20 and 30
Configure(j) ==
  /\ job_task[j].pc = "started"
  /\ job_store' = [job_store EXCEPT ![j].progress = 30]
  /\ job_task' = [job_task EXCEPT ![j].pc = "pipeline"]

\* process_scan_background, lines 164-181: progressive_process returns a
\* list, and progress goes to 90, or it raises
RunPipeline(j) ==
  /\ job_task[j].pc = "pipeline"
  /\ \/ \E results \in PipelineResults :
          /\ job_task' = [job_task EXCEPT ![j].pc = "finalize", ![j].results = results]
          /\ job_store' = [job_store EXCEPT ![j].progress = 90]
     \/ /\ job_task' = [job_task EXCEPT ![j].pc = "except", ![j].raised = TRUE]
        /\ UNCHANGED job_store

\* variant of HasSerialAttribute: the elements of the list have the
\* attributes the task reads
HasSerialAttribute_objects(result) == TRUE

\* result.serial, line 188: progressive_process returns tuples (line 840,
\* List[Tuple[str, float]]), which have no attribute `serial`
HasSerialAttribute(result) == FALSE

\* process_scan_background, lines 183-223: the results are recorded, or the
\* job fails for having none; reading result.serial can raise
Finalize(j) ==
  /\ job_task[j].pc = "finalize"
  /\ IF job_task[j].results # <<>>
       THEN IF \A k \in 1..Len(job_task[j].results) :
                 HasSerialAttribute(job_task[j].results[k])
              THEN /\ job_store' = [job_store EXCEPT ![j].status = "completed",
                                                     ![j].progress = 100,
                                                     ![j].results = job_task[j].results]
                   /\ job_task' = [job_task EXCEPT ![j].pc = "done"]
              ELSE /\ job_task' = [job_task EXCEPT ![j].pc = "except"]
                   /\ UNCHANGED job_store
       ELSE /\ job_store' = [job_store EXCEPT ![j].status = "failed",
                                              ![j].progress = 100,
                                              ![j].error = "no serial numbers"]
            /\ job_task' = [job_task EXCEPT ![j].pc = "done"]

\* process_scan_background, lines 225-238: except Exception
TaskExcept(j) ==
  /\ job_task[j].pc = "except"
  /\ job_store' = [job_store EXCEPT ![j].status = "failed", ![j].progress = 100,
                                    ![j].error = "Processing failed"]
  /\ job_task' = [job_task EXCEPT ![j].pc = "done"]

NextJob ==
  \E j \in Jobs :
    \/ SubmitScan(j) /\ UNCHANGED notJobVars
    \/ StartProcessing(j) /\ UNCHANGED notJobVars
    \/ Configure(j) /\ UNCHANGED notJobVars
    \/ RunPipeline(j) /\ UNCHANGED notJobVars
    \/ Finalize(j) /\ UNCHANGED notJobVars
    \/ TaskExcept(j) /\ UNCHANGED notJobVars

SpecJob == InitJob /\ [][NextJob]_vars

\* ------------------------------------------------------------------------
\* Properties of progressive_process (specification Spec)
\* ------------------------------------------------------------------------
Serials(list) == {list[i][1] : i \in 1..Len(list)}

\* the step that ends stage 1, 2 or 3: the pass before its checks, or for
\* stage 3 the merge behind the scales
StageEnd == <<"stage1", "stage2_enhanced", "stage3_end">>

\* the characters A-Z and 0-9
SerialAlphabet == {UpperLetters[n] : n \in 1..26} \cup DigitChars

\* every string of the list is 12 characters from A-Z0-9 and passes
\* is_valid_apple_serial
WellFormed(list) ==
  \A i \in 1..Len(list) :
    /\ Len(list[i][1]) = 12
    /\ \A k \in 1..Len(list[i][1]) : list[i][1][k] \in SerialAlphabet
    /\ is_valid_apple_serial(list[i][1])

\* sum of the confidences of all hits of the request with this key
Support(key) == IF key \in DOMAIN support THEN support[key] ELSE 0

\* C1: at the end of stage 1, 2 and 3, if the highest confidence among the
\* candidates accumulated so far is at least early_stop_confidence, the
\* controller returns at once and starts no later stage.
C1_ReturnsOnceTopCandidateSuffices ==
  [][\A s \in 1..3 :
       (pc = StageEnd[s] /\ TopConf(all_results') >= args.early_stop_confidence)
         => pc' = "done"]_vars

\* C2: if at the end of stage 1, 2 or 3 the elapsed time exceeds 0.4, 0.7 or
\* 1.0 of max_processing_time, the controller returns at that point, and
\* every serial accumulated so far is in the list it returns.
C2_TimeoutReturnsEverything ==
  [][\A s \in 1..3 :
       (pc = StageEnd[s] /\ elapsed' * 10 > args.max_processing_time * <<4, 7, 10>>[s])
         => (pc' = "done" /\ Serials(all_results') \subseteq Serials(returned'))]_vars

C2_TimedOutBehindStage2 ==
  /\ pc = "done"
  /\ exit = "stage2_timeout"
  /\ elapsed * 10 > args.max_processing_time * 7
  /\ Len(returned) >= 2
  /\ Serials(returned) = Serials(all_results)

C4_NoFewerThanBestPass ==
  pc = "done" => Len(returned) >= maxPassLen

C4_MergedPool ==
  /\ pc = "done"
  /\ exit = "final"
  /\ maxPassLen >= 2
  /\ Len(returned) < Len(all_results)

\* C5: every candidate string in the list the request returns, and in the
\* list its latest extract_serials pass returned, is 12 characters from
\* A-Z0-9 and passes is_valid_apple_serial.
C5_CandidatesWellFormed ==
  pc = "done" =>
    /\ WellFormed(returned)
    /\ scanned # <<>> => WellFormed(scanned[1])

C5_ReturnedAfterFallback ==
  /\ pc = "done"
  /\ exit = "final"
  /\ reads = MaxReads
  /\ Len(returned) >= 2
  /\ Len(all_results) > Len(scanned[1])

C9_ReturnedListRanked ==
  pc = "done" =>
    \A i \in 1..(Len(returned) - 1) : returned[i][2] >= returned[i + 1][2]

\* C10: on every return path the returned list holds at most one candidate
\* per normalized key, so no serial string twice.
C10_OneCandidatePerKey ==
  pc = "done" =>
    \A i, j \in 1..Len(returned) :
      NormOf(returned[i]) = NormOf(returned[j]) => i = j

\* ------------------------------------------------------------------------
\* Properties of the aggregation of extract_serials (specification SpecScan)
\* ------------------------------------------------------------------------
\* the normalized key of each hit and of each candidate returned
HitKeys == [n \in 1..Len(all_serials) |-> NormOf(all_serials[n])]

MergedKeys == [i \in 1..Len(merged) |-> NormOf(merged[i])]

\* per candidate returned: the hits of its key, their accumulated score, the
\* confidence of the best single hit, and the place of the first hit
HitsOf(keys, key) == {n \in 1..Len(keys) : keys[n] = key}

ScoreOf(keys, key) ==
  SumSeq([n \in 1..Len(keys) |-> IF keys[n] = key THEN all_serials[n][2] ELSE 0])

BestOf(keys, key) ==
  CHOOSE c \in {all_serials[n][2] : n \in HitsOf(keys, key)} :
    \A n \in HitsOf(keys, key) : all_serials[n][2] <= c

FirstOf(keys, key) ==
  CHOOSE n \in HitsOf(keys, key) : \A m \in HitsOf(keys, key) : n <= m

\* C7 as stated: the aggregation orders by accumulated score, descending;
\* equal scores by the higher single-hit confidence, and then by first seen.
C7_TiesByBestHitThenFirstSeen ==
  scan_exit = "aggregated" =>
    LET keys == HitKeys
        of == MergedKeys
        score == [i \in 1..Len(merged) |-> ScoreOf(keys, of[i])]
        best == [i \in 1..Len(merged) |-> BestOf(keys, of[i])]
        first == [i \in 1..Len(merged) |-> FirstOf(keys, of[i])]
    IN \A i, j \in 1..Len(merged) :
         i < j =>
           \/ score[i] > score[j]
           \/ /\ score[i] = score[j]
              /\ \/ best[i] > best[j]
                 \/ best[i] = best[j] /\ first[i] < first[j]

\* C7 as the code has it: the aggregation orders by accumulated score,
\* descending, and keys of equal score by first seen alone.
C7_TiesByFirstSeen ==
  scan_exit = "aggregated" =>
    LET keys == HitKeys
        of == MergedKeys
        score == [i \in 1..Len(merged) |-> ScoreOf(keys, of[i])]
        first == [i \in 1..Len(merged) |-> FirstOf(keys, of[i])]
    IN \A i, j \in 1..Len(merged) :
         i < j =>
           \/ score[i] > score[j]
           \/ score[i] = score[j] /\ first[i] < first[j]

\* two keys of equal score, the one seen first with the lower best hit
C7_TieWithLowerBestHitFirst ==
  /\ scan_exit = "aggregated"
  /\ LET keys == HitKeys
         of == MergedKeys
     IN \E i, j \in 1..Len(merged) :
          /\ i < j
          /\ ScoreOf(keys, of[i]) = ScoreOf(keys, of[j])
          /\ BestOf(keys, of[i]) < BestOf(keys, of[j])

C11_DecodeErrorSurfaces ==
  ~args.decodable =>
    /\ pc \in {"start", "stage1", "done"}
    /\ elapsed = 0 /\ reads = 0 /\ scanned = <<>> /\ all_results = <<>>
    /\ pc = "done" => (exit = "ValueError" /\ returned = <<>>)

C11_DecodeErrorRaised ==
  /\ ~args.decodable
  /\ pc = "done"
  /\ exit = "ValueError"

\* the positions at which the request calls the recognizer next
PassLabels ==
  {"yolo_crop", "stage1", "stage2_inv", "stage2_enhanced", "stage3",
   "stage3_scale", "stage4_enhanced"}

\* C15: the request is at the call of the classical engine only if it has
\* not returned, the passes of stages 1 to 3 are behind it (at least three
\* passes of at least one tick each), use_tesseract_fallback is set,
\* Tesseract is available and fallback_strategy is not easyocr_only; it gets
\* there only from the merge behind stage 3 or from the enhanced fallback.
C15_TesseractOnlyAsFallback ==
  [][pc' = "stage4_tesseract" =>
       /\ pc \in {"stage3_end", "stage4_enhanced"}
       /\ exit' = "none"
       /\ elapsed' >= 3
       /\ args'.use_tesseract_fallback
       /\ args'.TESSERACT_AVAILABLE
       /\ args'.fallback_strategy # "easyocr_only"]_vars

C15_TesseractRan ==
  /\ pc = "final"
  /\ "TESSERACT_AVAILABLE" \in DOMAIN args
  /\ TesseractEnabled(args.use_tesseract_fallback, args.TESSERACT_AVAILABLE,
                      args.fallback_strategy)
  /\ args.fallback_strategy = "tesseract_only"

\* C16: once the elapsed time is above max_processing_time the request is
\* at no position from which it starts a further pass.
C16_NoPassOverBudget ==
  (args.decodable /\ pc \in PassLabels) => ~OverBudget(elapsed, 10)

C13_SharedStateUnchanged ==
  [][\A t \in Threads :
       (thread[t].pc \in {"readtext", "except", "force_cpu"}
          /\ thread'[t] # thread[t])
         => (_reader' = _reader /\ OCR_SETTINGS' = OCR_SETTINGS)]_vars

\* the threads that hold the reader their first call of _get_reader gave
FirstHolders ==
  {t \in Threads : thread[t].calls = 0 /\ ~thread[t].retry
                     /\ thread[t].pc \in {"readtext", "except", "returned"}}

\* C14: as long as every thread is in its first call and no recognizer call
\* has been handled as failed, at most one reader has been constructed and
\* all threads that got a reader from _get_reader got the same one.
C14_ConstructedOnce ==
  (\A t \in Threads : thread[t].calls = 0 /\ ~thread[t].retry) =>
    /\ constructed <= 1
    /\ \A t, u \in FirstHolders : thread[t].reader = thread[u].reader

NoLookAlike(text) == \A i \in 1..Len(text) : LookAlikes(text[i]) = {}

\* C18 as stated: a text without a look-alike character is its own key,
\* without and with position_aware.
C18_PlainTextIsItsKey ==
  (norm_pc = "done" /\ NoLookAlike(norm_in[1])) =>
    /\ norm_out.plain[1] = norm_in[1]
    /\ norm_out.aware[1] = norm_in[1]

\* a position rule rewrites a character of the text that _AMBIGUOUS_MAP
\* leaves alone: a digit 0, 1, 2, 5, 8 among the first three characters or
\* an E or J at the 0-based positions 5 to 7 of a text of 12 characters
RewrittenByPosition(text) ==
  /\ Len(text) = 12
  /\ \/ \E i \in 1..3 : text[i] \in {"0", "1", "2", "5", "8"}
     \/ \E i \in 6..8 : text[i] \in {"E", "J"}

\* C18 as the code has it: a text without a key of _AMBIGUOUS_MAP is its
\* own key without position_aware; with position_aware it is its own key
\* exactly if no position rule rewrites one of its characters.
C18_KeyOfTextWithoutLetters ==
  (norm_pc = "done" /\ \A i \in 1..Len(norm_in[1]) : _AMBIGUOUS_MAP(norm_in[1][i]) = "") =>
    /\ norm_out.plain[1] = norm_in[1]
    /\ norm_out.aware[1] = norm_in[1] <=> ~RewrittenByPosition(norm_in[1])

C18_EFoldedToF ==
  /\ norm_pc = "done"
  /\ NoLookAlike(norm_in[1])
  /\ Len(norm_in[1]) = 12
  /\ norm_in[1][6] = "E"
  /\ norm_out.plain[1] = norm_in[1]
  /\ norm_out.aware[1] = ReplaceAt(norm_in[1], 5, "F")

\* the texts have the same length and differ only by look-alike substitutions
DifferByLookAlikes(a, b) ==
  /\ Len(a) = Len(b)
  /\ \A i \in 1..Len(a) : a[i] = b[i] \/ b[i] \in LookAlikes(a[i])

\* C19: two texts of 12 characters that differ only by look-alike
\* substitutions have the same position-aware key.
C19_LookAlikesShareKey ==
  (norm_pc = "done" /\ Len(norm_in[1]) = 12
     /\ DifferByLookAlikes(norm_in[1], norm_in[2])) =>
    norm_out.aware[1] = norm_out.aware[2]

\* ------------------------------------------------------------------------
\* One more hit in the aggregation (specification SpecScan)
\* ------------------------------------------------------------------------
\* one more hit for a key that all_serials has already: the spelling that the
\* aggregation reported for the key, with a confidence of 0, 0.30 or 1.0
ExtraHits ==
  {<<merged[n][1], c>> : n \in 1..Len(merged), c \in {0, 30, 100}}

\* the place of the key in a list that the aggregation returned
RankOf(list, key) == CHOOSE i \in 1..Len(list) : NormOf(list[i]) = key

\* C20: take the list the aggregation returned for all_serials and the list
\* it returns for all_serials with one more hit of a key already present:
\* every key that the hit's key was ranked before, it is still ranked before.
C20_MoreHitsNeverLowerRank ==
  scan_exit = "aggregated" =>
    \A n \in 1..Len(merged) : \A c \in {0, 30, 100} :
      LET after == Aggregate(Append(all_serials, <<merged[n][1], c>>))
          place == RankOf(after, NormOf(merged[n]))
      IN \A j \in (n + 1)..Len(merged) :
           \A k \in 1..place : NormOf(after[k]) # NormOf(merged[j])

\* one more hit moves its key from the second place to the first
C20_ExtraHitLiftsKey ==
  /\ scan_exit = "aggregated"
  /\ Len(merged) >= 2
  /\ merged = Aggregate(all_serials)
  /\ \E h \in ExtraHits :
       /\ NormOf(h) = NormOf(merged[2])
       /\ RankOf(Aggregate(Append(all_serials, h)), NormOf(h)) = 1


\* ------------------------------------------------------------------------
\* The iteration order of the variant set (specification SpecScan)
\* ------------------------------------------------------------------------
\* the recognizer outputs a scan can have read in all its calls together
EngineSeqs == UNION {[1..n -> ScanOutputs] : n \in 0..MaxScanReads}

\* the lists all_serials can be for the recognizer outputs, one list for each
\* order in which `for c in candidates` can walk the variant sets
SerialsTable ==
  [results \in EngineSeqs |->
     [m \in ScanMinConfidences |-> _read_serials_from_image(results, m)]]

\* the recognizer outputs that all_serials can come from
EnginesOf(serials, m) == {results \in EngineSeqs : serials \in SerialsTable[results][m]}

\* C21: the list the aggregation returns is the same for every order in
\* which the variant sets of the same recognizer outputs can be walked: the
\* same order of candidates, the same surface forms, the same confidences.
C21_SameOutputsSameRanking ==
  scan_exit = "aggregated" =>
    \A results \in EnginesOf(all_serials, scan_args.min_confidence) :
      \A serials \in SerialsTable[results][scan_args.min_confidence] :
        Aggregate(serials) = merged

\* ------------------------------------------------------------------------
\* One sweep at a time (specification SpecSweep)
\* ------------------------------------------------------------------------
\* the sweep threads that were started and have not finished
RunningSweeps == {n \in 1..MaxSweeps : sweep[n].pc \notin {"unstarted", "done"}}

\* C22: at most one sweep thread is running at any time, and
\* is_sweep_running() is True for as long as one is running.
C22_OneSweepAtATime ==
  /\ Cardinality(RunningSweeps) <= 1
  /\ RunningSweeps # {} => _sweep_running

\* ------------------------------------------------------------------------
\* The running flag is cleared (specification SpecSweepFair)
\* ------------------------------------------------------------------------
\* C30: every sweep thread that was started comes to its end, whatever the
\* outcome of the sweep, and has cleared the running flag when it does.
C30_SweepClearsFlag ==
  \A n \in 1..MaxSweeps :
    (sweep[n].pc = "started") ~> (sweep[n].pc = "done" /\ ~_sweep_running)

\* a sweep that raised has finished, the flag is clear and the next sweep has
\* been scheduled
C30_ScheduledAfterFailure ==
  /\ sweep[1].pc = "done"
  /\ sweep[1].outcome = "raised"
  /\ sweep[2].pc = "started"
  /\ ~_sweep_running
  /\ \E c \in SweepCallers : caller[c].response = "scheduled"

\* ------------------------------------------------------------------------
\* The validators (specification SpecValid)
\* ------------------------------------------------------------------------
\* the serial the validators are called with, as they normalize it
ValCandidate == StrUpper(StrStrip(val_in.serial))

\* C23: a serial of twelve characters of A-Z0-9 that starts with a known
\* prefix and holds at most three commonly confused characters is accepted
\* by validate_apple_serial_extended, with no reason.
C23_KnownPrefixAccepted ==
  ("extended" \in val_done
     /\ _BASIC_PATTERN(ValCandidate)
     /\ HasKnownPrefix(ValCandidate)
     /\ DisallowedCount(ValCandidate) <= 3)
    => extended_out = <<TRUE, "None">>

\* the serial after the position corrections of the client
ValCorrected == _apply_position_corrections(ValCandidate)

\* C24: a serial whose position-corrected form has no known prefix is
\* classified REJECT with is_valid False at every confidence and is not
\* submitted, confirmed or not; a BORDERLINE result is submitted if and only
\* if the user confirmed.
C24_NoPrefixRejected ==
  /\ ("client" \in val_done /\ _BASIC_PATTERN(ValCandidate)
        /\ ~has_known_prefix(ValCorrected))
       => /\ validation_result.confidence_level = "reject"
          /\ ~validation_result.is_valid
          /\ "submit" \in val_done => ~submit_out
  /\ ("submit" \in val_done /\ validation_result.confidence_level = "borderline")
       => (submit_out <=> val_in.user_confirmed)

\* a confirmed serial without a known prefix, read with confidence 1.0, was
\* not submitted
C24_ConfirmedButRejected ==
  /\ "submit" \in val_done
  /\ _BASIC_PATTERN(ValCandidate)
  /\ ~has_known_prefix(ValCorrected)
  /\ val_in.confidence = 100
  /\ val_in.user_confirmed
  /\ ~submit_out

\* ------------------------------------------------------------------------
\* The accept thresholds of the controller (specification Spec)
\* ------------------------------------------------------------------------
\* the return statements before the fallback stage that are not taken for
\* the time budget
AcceptExits ==
  {"yolo_success", "stage1_success", "stage2_inv_success", "stage2_success",
   "stage3_early_success", "stage3_success"}

\* C25: when progressive_process returns before the fallback stage, not for
\* the time budget and with the budget not exceeded, some candidate of the
\* list it returns has a confidence of at least early_stop_confidence.
C25_AcceptsOnlyAtEarlyStop ==
  (pc = "done" /\ exit \in AcceptExits /\ ~OverBudget(elapsed, 10))
    => \E i \in 1..Len(returned) : returned[i][2] >= args.early_stop_confidence

\* ------------------------------------------------------------------------
\* The boost of the merge (specification SpecMerge)
\* ------------------------------------------------------------------------
\* C26: a serial that occurs n times in the list has, in the list returned,
\* the confidence min(1.0, m + 0.05 * (n - 1)), m being the largest confidence
\* of its occurrences, whatever the order of the list.
C26_BoostPerRepeat ==
  merge_done =>
    \A k \in 1..Len(merge_in) :
      LET serial == merge_in[k][1]
          occ == SelectSeq(merge_in, LAMBDA h : h[1] = serial)
          m == MaxByConf(occ)[2]
      IN \E i \in 1..Len(merge_out) :
           /\ merge_out[i][1] = serial
           /\ merge_out[i][2] = Min2(100, m + 5 * (Len(occ) - 1))

\* ------------------------------------------------------------------------
\* One contribution for each recognizer output (specification SpecScan)
\* ------------------------------------------------------------------------
\* the normalized keys that the valid variants of one recognizer output have
OutputKeys(output, min_confidence) ==
  {NormOf(h) : h \in VariantHits(output[1], output[2], min_confidence)}

\* C27: the accumulated score of a key is the sum of the confidences of the
\* recognizer outputs that have a valid variant with this key, each output
\* counted once however many variants it has.
C27_OutputCountsOnce ==
  scan_exit = "aggregated" =>
    \A results \in EnginesOf(all_serials, scan_args.min_confidence) :
      \A n \in 1..Len(all_serials) :
        score_by_norm(all_serials, HitKeys[n]) =
          SumSeq([i \in 1..Len(results) |->
                    IF HitKeys[n] \in OutputKeys(results[i], scan_args.min_confidence)
                      THEN results[i][2] ELSE 0])

\* ------------------------------------------------------------------------
\* The keyword crops of ocr_adapter (specification SpecAdapter)
\* ------------------------------------------------------------------------
\* C28: with roi off, keyword_crop on and at least one anchor box found, the
\* crop around every anchor box is in imgs_to_scan, and has been passed to
\* the recognizer when the scan loop is through, whatever zoom_strips is.
C28_KeywordCropsScanned ==
  (adapter_pc \in {"scan", "done"} /\ ~adapter_args.roi
     /\ adapter_args.keyword_crop /\ adapter_args.boxes > 0)
    => \A i \in 1..adapter_args.boxes :
         /\ \E k \in 1..Len(adapter_imgs) : adapter_imgs[k] = KeywordCrop(i)
         /\ adapter_pc = "done"
              => \E k \in 1..Len(adapter_read) : adapter_read[k] = KeywordCrop(i)

\* ------------------------------------------------------------------------
\* Scan jobs (specification SpecJob)
\* ------------------------------------------------------------------------
\* C29: a job whose task has run to its end, and whose pipeline call
\* returned at least one candidate, has the status completed, the progress
\* 100 and its results recorded; a job fails only when the pipeline returned
\* no candidate or raised.
C29_CandidatesCompleteTheJob ==
  \A j \in Jobs :
    (job_task[j].pc = "done" /\ ~job_task[j].raised /\ job_task[j].results # <<>>)
      => /\ job_store[j].status = "completed"
         /\ job_store[j].progress = 100
         /\ job_store[j].results # <<>>

====
